---- MODULE Spec2Model ----
(***************************************************************************)
(* Tuner-control engine of the FM receiver firmware (class Si4703):        *)
(* register shadow, the two bus transactions getShadow / putShadow, the    *)
(* start / power-up sequence, and the tune and seek handshakes.            *)
(*                                                                         *)
(* The program is single threaded.  Its position is pc, the return         *)
(* addresses of nested calls are in stack.  One step of the program is one *)
(* bus transaction (getShadow or putShadow), or the local code between two *)
(* transactions.  The chip is the environment: it keeps its own register   *)
(* file, answers the transactions, and completes tune / seek commands.     *)
(***************************************************************************)
EXTENDS Integers, Sequences, FiniteSets, TLC

VARIABLES
    shadow,       \* shadow.word[0..15], the engine's mirror of the registers
    bandStart,    \* _bandStart
    bandEnd,      \* _bandEnd
    bandSpacing,  \* _bandSpacing
    band,         \* _band  (constructor argument)
    space,        \* _space (constructor argument)
    pc,           \* position of the program
    stack,        \* return positions of the calls in progress
    freq,         \* local `freq` of setChannel / incChannel / decChannel
    seekDir,      \* parameter seekDirection of seek
    sfbl,         \* local `sfbl` of seek
    result,       \* value returned by the last call that returned
    chip,         \* the chip's registers 0x00..0x0F
    tx,           \* bus events of the transaction made by the last step, <<>> if none
    hs,           \* observer: state of the tune/seek handshake, from bus events
    scArg,        \* observer: argument setChannel was last called with
    scNack,       \* observer: a transfer was not acknowledged since setChannel was entered
    icFreq0,      \* observer: frequency incChannel / decChannel read on entry
    opNack,       \* observer: a transfer was not acknowledged since the public call
    putRes,       \* observer: value returned by putShadow in the last step, -1 if none
    op,           \* observer: the public operation in progress or last completed
    lastRet,      \* observer: the function that returned in the last step, or "none"
    volume,       \* parameter `volume` of setVolume
    en,           \* parameter `en` of setMono / setMute / setVolExt
    GPIO,         \* parameter `GPIO` of writeGPIO
    val,          \* parameter `val` of writeGPIO
    opLog,        \* observer: bus transactions and delays of the public call, polls left out
    prev,         \* observer: <<op, en, volume>> when an accessor was called after a setter
    faults,       \* number of transactions with a NACK so far
    nops,         \* number of public calls made after start()
    now,          \* the value timer_millis() returns to the button and the encoder
    pin,          \* level of the button's input pin
    button,       \* the members of a Button object
    btnObs,       \* observer: the reads and the events of the Button object
    encPins,      \* levels of the encoder's inputs SW, CLK and DT
    encoder,      \* the members of the RotaryEncoder object and checkEvent's static lastState
    encObs,       \* observer: the samples and the events of the encoder
    uart,         \* UART0 transmit ring, its indices, and the transmitter's registers
    putc,         \* the call of uart_putc in progress: position, data, tmphead
    uartObs,      \* observer: bytes passed to uart_putc and bytes handed to the transmitter
    timer,        \* millis_counter, the I bit of SREG, and the TIMER0 overflow flag
    tm,           \* the call of timer_millis in progress: position, old, m
    tmObs,        \* observer: the values millis_counter held during the call
    ui,           \* the statics of the UI layer, and the position of main / the handler
    uiObs         \* observer: the UI event in progress and what it has done

cfgVars == <<bandStart, bandEnd, bandSpacing, band, space>>
argVars == <<volume, en, GPIO, val>>
vars == <<shadow, bandStart, bandEnd, bandSpacing, band, space, pc, stack, freq,
          seekDir, sfbl, result, chip, tx, hs, scArg, scNack, icFreq0, opNack,
          putRes, op, lastRet, volume, en, GPIO, val, opLog, prev, faults, nops,
          now, pin, button, btnObs, encPins, encoder, encObs, uart, putc, uartObs,
          timer, tm, tmObs, ui, uiObs>>
\* the tuner engine's variables, and those of the other drivers
radioVars == <<shadow, bandStart, bandEnd, bandSpacing, band, space, pc, stack, freq,
               seekDir, sfbl, result, chip, tx, hs, scArg, scNack, icFreq0, opNack,
               putRes, op, lastRet, volume, en, GPIO, val, opLog, prev, faults, nops>>
buttonVars == <<pin, button, btnObs>>
encoderVars == <<encPins, encoder, encObs>>
uartVars == <<uart, putc, uartObs>>
timerVars == <<timer, tm, tmObs>>
uiVars == <<ui, uiObs>>
driverVars == <<now, buttonVars, encoderVars, uartVars, timerVars>>
periphVars == <<driverVars, uiVars>>

(***************************************************************************)
(* Bounds of the model.                                                    *)
(***************************************************************************)
MaxFaults == 1      \* transactions with a NACK in one behaviour
MaxOps    == 2      \* public calls after start() in one behaviour

(***************************************************************************)
(* Constants of Si4703.h and twi.h.                                        *)
(***************************************************************************)
BAND_US_EU   == 0
BAND_JPW     == 1
BAND_JP      == 2
SPACE_200KHz == 0
SPACE_100KHz == 1
SPACE_50KHz  == 2
DE_75us      == 0
SKMODE_STOP  == 1
SEEKTH_DEF   == 24
SKCNT_DEF    == 15
SKSNR_DEF    == 15
AGCD_DEF     == 0
GPIO_Z       == 0
BLA_31_49    == 0
SMA_16dB     == 0
SMRR_Fastest == 0
I2C_ADDR     == 16
SEEK_DOWN    == 0
SEEK_UP      == 1
GPIO1        == 1
GPIO2        == 2
GPIO3        == 3
GPIO_I       == 1
GPIO_Low     == 2
GPIO_High    == 3
TWI_WRITE    == 0
TWI_READ     == 1
TWI_ACK      == 0
TWI_NACK     == 1

(***************************************************************************)
(* shadow_t: the slot of each register in shadow.word[].                   *)
(***************************************************************************)
SLOT_STATUSRSSI == 0
SLOT_READCHAN   == 1
SLOT_DEVICEID   == 6
SLOT_CHIPID     == 7
SLOT_POWERCFG   == 8
SLOT_CHANNEL    == 9
SLOT_SYSCONFIG1 == 10
SLOT_SYSCONFIG2 == 11
SLOT_SYSCONFIG3 == 12
SLOT_TEST1      == 13

Slots == 0..15
Word  == 0..65535

(***************************************************************************)
(* Bit fields.  A field is <<slot, lowest bit, width>>; the compiler lays  *)
(* the fields of each register out from bit 0 upwards in declaration order.*)
(***************************************************************************)
Field(w, lo, width) == (w \div (2^lo)) % (2^width)

\* assignment to a bit field: the value is truncated to the field's width
SetField(w, lo, width, v) ==
    w - Field(w, lo, width) * (2^lo) + (v % (2^width)) * (2^lo)

Get(sh, f) == Field(sh[f[1]], f[2], f[3])

Set(sh, f, v) == [sh EXCEPT ![f[1]] = SetField(@, f[2], f[3], v)]

F_MFGID    == <<SLOT_DEVICEID, 0, 12>>
F_PN       == <<SLOT_DEVICEID, 12, 4>>
F_FIRMWARE == <<SLOT_CHIPID, 0, 6>>
F_DEV      == <<SLOT_CHIPID, 6, 4>>
F_REV      == <<SLOT_CHIPID, 10, 6>>
F_ENABLE   == <<SLOT_POWERCFG, 0, 1>>
F_DISABLE  == <<SLOT_POWERCFG, 6, 1>>
F_SEEK     == <<SLOT_POWERCFG, 8, 1>>
F_SEEKUP   == <<SLOT_POWERCFG, 9, 1>>
F_SKMODE   == <<SLOT_POWERCFG, 10, 1>>
F_RDSM     == <<SLOT_POWERCFG, 11, 1>>
F_MONO     == <<SLOT_POWERCFG, 13, 1>>
F_DMUTE    == <<SLOT_POWERCFG, 14, 1>>
F_DSMUTE   == <<SLOT_POWERCFG, 15, 1>>
F_CHAN     == <<SLOT_CHANNEL, 0, 10>>
F_TUNE     == <<SLOT_CHANNEL, 15, 1>>
F_GPIO1    == <<SLOT_SYSCONFIG1, 0, 2>>
F_GPIO2    == <<SLOT_SYSCONFIG1, 2, 2>>
F_GPIO3    == <<SLOT_SYSCONFIG1, 4, 2>>
F_BLNDADJ  == <<SLOT_SYSCONFIG1, 6, 2>>
F_AGCD     == <<SLOT_SYSCONFIG1, 10, 1>>
F_DE       == <<SLOT_SYSCONFIG1, 11, 1>>
F_RDS      == <<SLOT_SYSCONFIG1, 12, 1>>
F_STCIEN   == <<SLOT_SYSCONFIG1, 14, 1>>
F_RDSIEN   == <<SLOT_SYSCONFIG1, 15, 1>>
F_VOLUME   == <<SLOT_SYSCONFIG2, 0, 4>>
F_SPACE    == <<SLOT_SYSCONFIG2, 4, 2>>
F_BAND     == <<SLOT_SYSCONFIG2, 6, 2>>
F_SEEKTH   == <<SLOT_SYSCONFIG2, 8, 8>>
F_SKCNT    == <<SLOT_SYSCONFIG3, 0, 4>>
F_SKSNR    == <<SLOT_SYSCONFIG3, 4, 4>>
F_VOLEXT   == <<SLOT_SYSCONFIG3, 8, 1>>
F_SMUTEA   == <<SLOT_SYSCONFIG3, 12, 2>>
F_SMUTER   == <<SLOT_SYSCONFIG3, 14, 2>>
F_AHIZEN   == <<SLOT_TEST1, 14, 1>>
F_XOSCEN   == <<SLOT_TEST1, 15, 1>>
F_RSSI     == <<SLOT_STATUSRSSI, 0, 8>>
F_ST       == <<SLOT_STATUSRSSI, 8, 1>>
F_SFBL     == <<SLOT_STATUSRSSI, 13, 1>>
F_STC      == <<SLOT_STATUSRSSI, 14, 1>>
F_READCHAN == <<SLOT_READCHAN, 0, 10>>

(***************************************************************************)
(* The bus.  A transaction is the sequence of its events:                  *)
(*   <<"start">>, <<"write", byte, answer of the device>>,                 *)
(*   <<"read", byte, answer of the master>>, <<"stop">>.                   *)
(***************************************************************************)
EvStart          == <<"start">>
EvStop           == <<"stop">>
EvWrite(b, ack)  == <<"write", b, ack>>
EvRead(b, ack)   == <<"read", b, ack>>

\* the register the device sends as the i-th word of a read: 0x0A..0x0F, 0x00..0x09
ReadOrderReg(i) == (i + 10) % 16

\* the slot of shadow.word[] that mirrors register r
SlotOfReg(r) == (r + 6) % 16

\* the 32 bytes the device sends in a read transaction
ChipReadData(c) ==
    [k \in 1..32 |->
        LET w == c[ReadOrderReg((k - 1) \div 2)]
        IN  IF k % 2 = 1 THEN w \div 256 ELSE w % 256]

\* a master that acknowledges the last byte as well
LsbAnswerAlwaysAck(i) == TWI_ACK

\* the master's answer to the lower byte of word i: ACK, NACK for the last word
LsbAnswer(i) == IF i < 15 THEN TWI_ACK ELSE TWI_NACK

\* the two bytes of a word combined in the wrong order
MakeWordSwapped(msb, lsb) == ((lsb * 256) % 65536) + msb

\* ((uint16_t)msb << 8) | lsb
MakeWord(msb, lsb) == ((msb * 256) % 65536) + lsb

\* the for loop of getShadow, from iteration i on
RECURSIVE GetShadowLoop(_, _, _, _)
GetShadowLoop(i, sh, log, data) ==
    IF i < 16
    THEN LET msb == data[2 * i + 1]
             lsb == data[2 * i + 2]
         IN  GetShadowLoop(i + 1, [sh EXCEPT ![i] = MakeWord(msb, lsb)],
                           log \o <<EvRead(msb, TWI_ACK), EvRead(lsb, LsbAnswer(i))>>,
                           data)
    ELSE [shadow |-> sh, log |-> Append(log, EvStop)]

\* a getShadow() that clears the shadow when the device does not answer
GetShadowClearing(sh, ack, data) ==
    LET slave_read_addr == I2C_ADDR * 2 + TWI_READ
        log0 == <<EvStart, EvWrite(slave_read_addr, ack)>>
    IN  IF ack # TWI_ACK
        THEN [shadow |-> [i \in 0..15 |-> 0], log |-> Append(log0, EvStop)]
        ELSE GetShadowLoop(0, sh, log0, data)

\* getShadow(): ack is the device's answer to SLA+R, data the bytes it sends
\* a getShadow that returns without the stop when the address is not
\* acknowledged
GetShadowUnclosed(sh, ack, data) ==
    LET slave_read_addr == I2C_ADDR * 2 + TWI_READ
        log0 == <<EvStart, EvWrite(slave_read_addr, ack)>>
    IN  IF ack # TWI_ACK
        THEN [shadow |-> sh, log |-> log0]
        ELSE GetShadowLoop(0, sh, log0, data)

GetShadow(sh, ack, data) ==
    LET slave_read_addr == I2C_ADDR * 2 + TWI_READ
        log0 == <<EvStart, EvWrite(slave_read_addr, ack)>>
    IN  IF ack # TWI_ACK
        THEN [shadow |-> sh, log |-> Append(log0, EvStop)]
        ELSE GetShadowLoop(0, sh, log0, data)

\* the device's answer to the next byte written in a transaction whose events
\* so far are log, when it acknowledges the first nAck bytes of the transaction
Answer(log, nAck) == IF Len(log) - 1 < nAck THEN TWI_ACK ELSE TWI_NACK

\* the for loop of putShadow, from iteration i on
RECURSIVE PutShadowLoop(_, _, _, _)
PutShadowLoop(i, sh, log, nAck) ==
    IF i < 14
    THEN LET upper_byte == sh[i] \div 256
             log1       == Append(log, EvWrite(upper_byte, Answer(log, nAck)))
         IN  IF Answer(log, nAck) # TWI_ACK
             THEN [result |-> 2, log |-> Append(log1, EvStop)]
             ELSE LET lower_byte == sh[i] % 256
                      log2 == Append(log1, EvWrite(lower_byte, Answer(log1, nAck)))
                  IN  IF Answer(log1, nAck) # TWI_ACK
                      THEN [result |-> 3, log |-> Append(log2, EvStop)]
                      ELSE PutShadowLoop(i + 1, sh, log2, nAck)
    ELSE [result |-> 0, log |-> Append(log, EvStop)]

\* a putShadow() that starts at the read-only registers 0x00 and 0x01
PutShadowFromDeviceId(sh, nAck) ==
    LET slave_write_addr == I2C_ADDR * 2 + TWI_WRITE
        log0 == <<EvStart>>
        log1 == Append(log0, EvWrite(slave_write_addr, Answer(log0, nAck)))
    IN  IF Answer(log0, nAck) # TWI_ACK
        THEN [result |-> 1, log |-> Append(log1, EvStop)]
        ELSE PutShadowLoop(6, sh, log1, nAck)

\* a putShadow() that goes on after SLA+W was not acknowledged
PutShadowNoAbort(sh, nAck) ==
    LET slave_write_addr == I2C_ADDR * 2 + TWI_WRITE
        log0 == <<EvStart>>
        log1 == Append(log0, EvWrite(slave_write_addr, Answer(log0, nAck)))
    IN  PutShadowLoop(8, sh, log1, nAck)

\* putShadow(): the device acknowledges the first nAck bytes (SLA+W included)
PutShadow(sh, nAck) ==
    LET slave_write_addr == I2C_ADDR * 2 + TWI_WRITE
        log0 == <<EvStart>>
        log1 == Append(log0, EvWrite(slave_write_addr, Answer(log0, nAck)))
    IN  IF Answer(log0, nAck) # TWI_ACK
        THEN [result |-> 1, log |-> Append(log1, EvStop)]
        ELSE PutShadowLoop(8, sh, log1, nAck)

(***************************************************************************)
(* The chip (environment).  Its registers are indexed by register address. *)
(***************************************************************************)
Regs == 0..15

ChipField(c, f) == Field(c[ReadOrderReg(f[1])], f[2], f[3])

ChipSetField(c, f, v) ==
    [c EXCEPT ![ReadOrderReg(f[1])] = SetField(@, f[2], f[3], v)]

\* the registers after a reset: device and chip identification, the rest clear
ChipReset ==
    [r \in Regs |-> CASE r = 0 -> 4674      \* DEVICEID 0x1242
                      [] r = 1 -> 4691      \* CHIPID   0x1253
                      [] r = 7 -> 256       \* TEST1, reserved bits
                      [] r = 12 -> 53505    \* RDSA
                      [] r = 13 -> 8200     \* RDSB
                      [] OTHER -> 0]

\* the k-th event of a write transaction is a data byte the device acknowledged
AckedByte(log, k) ==
    /\ k <= Len(log)
    /\ log[k][1] = "write"
    /\ log[k][3] = TWI_ACK

\* the registers after a write transaction: the device's write pointer starts
\* at register 0x02, upper byte first, and every acknowledged byte is stored
ChipWrite(c, log) ==
    [r \in Regs |->
        IF r \in 2..7
        THEN LET ku == 3 + 2 * (r - 2)
                 kl == ku + 1
                 up == IF AckedByte(log, ku) THEN log[ku][2] ELSE c[r] \div 256
                 lo == IF AckedByte(log, kl) THEN log[kl][2] ELSE c[r] % 256
             IN  up * 256 + lo
        ELSE c[r]]

\* channels a seek may stop at
SeekChans == {2, 7}

\* the chip finishes the tune or seek that was commanded: STC is set; a tune
\* reports the commanded channel in READCHAN, a seek reports where it stopped
\* and whether it failed or hit the band limit (SFBL)
ChipComplete ==
    /\ ChipField(chip, F_STC) = 0
    /\ \/ /\ ChipField(chip, F_TUNE) = 1
          /\ chip' = ChipSetField(
                        ChipSetField(ChipSetField(chip, F_STC, 1), F_SFBL, 0),
                        F_READCHAN, ChipField(chip, F_CHAN))
       \/ /\ ChipField(chip, F_TUNE) = 0
          /\ ChipField(chip, F_SEEK) = 1
          /\ \E ch \in SeekChans, fail \in {0, 1} :
                chip' = ChipSetField(
                           ChipSetField(ChipSetField(chip, F_STC, 1), F_SFBL, fail),
                           F_READCHAN, ch)

\* the chip clears STC (and SFBL) once the command bit has been cleared
ChipClear ==
    /\ ChipField(chip, F_STC) = 1
    /\ ChipField(chip, F_TUNE) = 0
    /\ ChipField(chip, F_SEEK) = 0
    /\ chip' = ChipSetField(ChipSetField(chip, F_STC, 0), F_SFBL, 0)

(***************************************************************************)
(* Observer of the tune / seek handshake, driven by what happens on the    *)
(* bus and by the returns of setChannel and seek.                          *)
(***************************************************************************)
\* the transaction log is a read whose address was acknowledged
ReadOk(log) == Len(log) > 2 /\ log[2][3] = TWI_ACK /\ log[3][1] = "read"

\* the transaction has a byte that was not acknowledged by the device
HasNack(log) == \E k \in 1..Len(log) : log[k][1] = "write" /\ log[k][3] = TWI_NACK

\* STC in the data of a read transaction: bit 14 of the first word received
StcOnBus(log) == Field(log[3][2] * 256 + log[4][2], 14, 1)

\* a completion poll is about to be made
HsAtPoll(h) == IF h = "Idle" THEN "Bad" ELSE h

HsAfterRead(h, log) ==
    IF ~ReadOk(log) THEN h
    ELSE IF StcOnBus(log) = 1
         THEN (IF h = "Busy" THEN "ResultReady" ELSE h)
         ELSE (IF h = "ClearingWait" THEN "Idle" ELSE h)

\* putShadow is called with the command bit (TUNE or SEEK) as given
HsAfterWrite(h, cmd) ==
    IF cmd = 1
    THEN (IF h = "Idle" THEN "Busy" ELSE "Bad")
    ELSE CASE h = "ResultReady" -> "ClearingWait"
           [] h = "Busy"        -> "Bad"
           [] OTHER             -> h

\* setChannel or seek returns
HsAtReturn(h) == IF h = "Idle" THEN "Idle" ELSE "Bad"

CmdBit(sh) == IF Get(sh, F_TUNE) = 1 \/ Get(sh, F_SEEK) = 1 THEN 1 ELSE 0

(***************************************************************************)
(* Building blocks of the program's steps.                                 *)
(***************************************************************************)
\* entries of opLog: a getShadow() outside a poll, a putShadow() with the
\* command bits of the shadow it sends, a _delay_ms(ms)
LogRead == <<"read">>
LogWrite(sh) ==
    <<"write", Get(sh, F_SEEK), Get(sh, F_SEEKUP), Get(sh, F_TUNE), Get(sh, F_CHAN)>>
LogSfbl(sh) == <<"sfbl", Get(sh, F_SFBL)>>
LogDelay(ms) == <<"delay", ms>>

\* a call of getShadow(); poll says the call is made by getSTC(), hsRet that
\* setChannel or seek returns once the call is over
CallGetShadow(poll, hsRet) ==
    \E ack \in {TWI_ACK, TWI_NACK} :
        /\ ack = TWI_NACK => faults < MaxFaults
        /\ LET r == GetShadow(shadow, ack, ChipReadData(chip))
               h == HsAfterRead(IF poll THEN HsAtPoll(hs) ELSE hs, r.log)
           IN  /\ shadow' = r.shadow
               /\ tx' = r.log
               /\ hs' = IF hsRet THEN HsAtReturn(h) ELSE h
        /\ faults' = IF ack = TWI_NACK THEN faults + 1 ELSE faults
        /\ scNack' = (scNack \/ ack = TWI_NACK)
        /\ opNack' = (opNack \/ ack = TWI_NACK)
        /\ putRes' = -1
        /\ opLog' = IF poll THEN opLog ELSE Append(opLog, LogRead)
        /\ UNCHANGED <<chip, prev, periphVars>>

\* getShadow() by a step that is not a return
ReadStep(poll) == CallGetShadow(poll, FALSE) /\ lastRet' = "none"

\* the numbers of bytes of a write transaction that the device acknowledges:
\* none, SLA+W only, up to a byte of POWERCFG or CHANNEL, all but the last, all
AckCounts == {0, 1, 2, 3, 4, 12, 13}

\* a call of putShadow(), its return value discarded by the caller, and the
\* _delay_ms(ms) that follows it (ms = 0: none)
CallPutShadowDelay(ms) ==
    \E nAck \in AckCounts :
        /\ nAck < 13 => faults < MaxFaults
        /\ LET r == PutShadow(shadow, nAck)
           IN  /\ tx' = r.log
               /\ putRes' = r.result
               /\ chip' = ChipWrite(chip, r.log)
        /\ hs' = HsAfterWrite(hs, CmdBit(shadow))
        /\ faults' = IF nAck < 13 THEN faults + 1 ELSE faults
        /\ scNack' = (scNack \/ nAck < 13)
        /\ opNack' = (opNack \/ nAck < 13)
        /\ lastRet' = "none"
        /\ opLog' = opLog \o (IF ms = 0 THEN <<LogWrite(shadow)>>
                                        ELSE <<LogWrite(shadow), LogDelay(ms)>>)
        /\ UNCHANGED <<shadow, prev, periphVars>>

\* a call of putShadow() that no delay follows
CallPutShadow == CallPutShadowDelay(0)

\* a step without a bus transaction
NoBus == tx' = <<>> /\ putRes' = -1 /\ UNCHANGED <<chip, faults, opLog, prev, periphVars>>

\* local code that is not a return
Local == NoBus /\ lastRet' = "none" /\ UNCHANGED <<hs, scNack, opNack>>

\* return v to the caller; fn is the function that returns
Return(fn, v) ==
    /\ pc' = Head(stack)
    /\ stack' = Tail(stack)
    /\ result' = v
    /\ lastRet' = fn

(***************************************************************************)
(* setRegion                                                               *)
(***************************************************************************)
RegionStart(b, old) ==
    CASE b = BAND_US_EU -> 8750
      [] b = BAND_JPW   -> 7600
      [] b = BAND_JP    -> 7600
      [] OTHER          -> old

RegionEnd(b, old) ==
    CASE b = BAND_US_EU -> 10800
      [] b = BAND_JPW   -> 10800
      [] b = BAND_JP    -> 9000
      [] OTHER          -> old

\* a setRegion whose spacing switch has a default of 100 kHz
RegionSpacingDefault(s, old) ==
    CASE s = SPACE_200KHz -> 20
      [] s = SPACE_50KHz  -> 5
      [] OTHER            -> 10

RegionSpacing(s, old) ==
    CASE s = SPACE_100KHz -> 10
      [] s = SPACE_200KHz -> 20
      [] s = SPACE_50KHz  -> 5
      [] OTHER            -> old

(***************************************************************************)
(* Si4703 radio;  -- the state after construction.  The object has static  *)
(* storage: every member the constructor does not set is zero.             *)
(***************************************************************************)
Bands  == {BAND_US_EU, BAND_JPW, BAND_JP}
Spaces == {SPACE_200KHz, SPACE_100KHz, SPACE_50KHz}

(***************************************************************************)
(* The other drivers of the firmware, as they are after construction and   *)
(* before main() has called begin() / uart_init() / sei().                 *)
(***************************************************************************)

\* Button::Button: the members after construction
ButtonConstructed ==
    [stableState |-> 1, lastFlickerableState |-> 1, lastDebounceTime |-> 0,
     isPressed |-> FALSE, longPressReported |-> FALSE, pressStartTime |-> 0]

\* nothing read and nothing reported yet.  began: begin() has run; called: the
\* last step was a call of checkEvent; ev: what that call returned; sample,
\* sampleSince: the level the program last read from the pin and the time of
\* the read at which that level was first seen; stableWas: the debounced
\* state before the last call; pressAt: the time at which the debounced state
\* last became pressed; heldAtBegin: begin() read the pin low; cycleEvents,
\* cycleLongs: events other than NONE, and LONG events, since the debounced
\* state last became pressed
ButtonUnobserved ==
    [began |-> FALSE, called |-> FALSE, ev |-> "BTN_EVENT_NONE", sample |-> 1,
     sampleSince |-> 0, stableWas |-> 1, pressAt |-> 0, heldAtBegin |-> FALSE,
     cycleEvents |-> 0, cycleLongs |-> 0]

\* RotaryEncoder::RotaryEncoder, and the static lastState of checkEvent
EncoderConstructed ==
    [lastCLKState |-> 0, lastButtonPress |-> 0, lastRotaryEvent |-> 0, lastState |-> 0]

\* began: begin() has run; called: the last step was a call of checkEvent;
\* ev: what that call returned; clicked, clickAt: EVENT_BUTTON has been
\* returned, and when it last was; clickGap: the time between the last two
\* EVENT_BUTTON, -1 if there were not two; rawWas, rawNow: the raw samples
\* (clk << 1) | dt of the last two calls that sampled them, -1 if none
EncoderUnobserved ==
    [began |-> FALSE, called |-> FALSE, ev |-> "EVENT_NONE", clicked |-> FALSE,
     clickAt |-> 0, clickGap |-> -1, rawWas |-> -1, rawNow |-> -1]

\* UART_TX_BUFFER_SIZE, a power of two
UART_TX_BUFFER_SIZE == 64

\* the indices of the transmit ring
TxIndex == 0..(UART_TX_BUFFER_SIZE - 1)

\* the transmit side of UART0 after uart_init: ring empty, the data register
\* empty (UDRE), its interrupt not enabled (UDRIE)
UartReset ==
    [TxBuf |-> [i \in TxIndex |-> 0], TxHead |-> 0, TxTail |-> 0,
     UDRIE |-> FALSE, UDRE |-> TRUE]

\* no call of uart_putc in progress; ctl is the value read from UART0_CONTROL
PutcIdle == [pc |-> "idle", data |-> 0, tmphead |-> 0, ctl |-> FALSE]

\* given: the bytes passed to uart_putc so far; sent: the bytes written to
\* UART0_DATA so far; waited: uart_putc has found the ring full; strandedOff:
\* the interrupt has disabled itself with bytes left in the ring
UartUnobserved ==
    [given |-> <<>>, sent |-> <<>>, waited |-> FALSE, strandedOff |-> FALSE]

\* millis_counter as its four bytes, least significant first; the I bit of
\* SREG, clear after reset; TOV: a TIMER0 overflow is waiting for its interrupt
TimerReset == [millis_counter |-> <<0, 0, 0, 0>>, I |-> FALSE, TOV |-> FALSE]

\* no call of timer_millis in progress; old is the I bit of the saved SREG,
\* m the local m, k the number of its bytes read so far
TmIdle == [pc |-> "idle", old |-> FALSE, m |-> <<0, 0, 0, 0>>, k |-> 0]

\* held: the values millis_counter has had since the call was entered;
\* entryI: the I bit when it was entered; overflows: interrupts served so far
TmUnobserved == [held |-> {}, entryI |-> FALSE, overflows |-> 0]

\* enum radio_mode_t
RADIO_MODE_VOLUME == 0
RADIO_MODE_TUNE == 1

\* the statics of button_function.cpp as initialised, and main about to call
\* radio.start()
UiReset ==
    [pc |-> "m_start", s_mode |-> RADIO_MODE_VOLUME, s_favorite_freq |-> 0,
     s_radio_on |-> TRUE]

\* ev: the UI event being handled or last handled; done: the last step ended
\* its handling; events: events handled so far; calls: calls of the tuner made
\* for it; lastPower: the last of powerUp / powerDown called by main or the UI;
\* onWas, modeWas, before: the power flag, the mode, and the shadow, the
\* chip's registers and the favourite when the event arrived
UiUnobserved ==
    [ev |-> "UI_EVENT_NONE", done |-> FALSE, events |-> 0, calls |-> 0,
     lastPower |-> "none", onWas |-> TRUE, modeWas |-> RADIO_MODE_VOLUME,
     before |-> <<>>]

\* every driver but the tuner engine untouched
PeriphReset ==
    /\ now = 0
    /\ pin = 1
    /\ button = ButtonConstructed
    /\ btnObs = ButtonUnobserved
    /\ encPins = [sw |-> 1, clk |-> 0, dt |-> 0]
    /\ encoder = EncoderConstructed
    /\ encObs = EncoderUnobserved
    /\ uart = UartReset
    /\ putc = PutcIdle
    /\ uartObs = UartUnobserved
    /\ timer = TimerReset
    /\ tm = TmIdle
    /\ tmObs = TmUnobserved
    /\ ui = UiReset
    /\ uiObs = UiUnobserved

\* the object constructed with selectors b and s, nf transactions with a NACK
\* counted already
Constructed(b, s, nf) ==
    /\ shadow = [i \in Slots |-> 0]
    /\ bandStart = 0
    /\ bandEnd = 0
    /\ bandSpacing = 0
    /\ band = b
    /\ space = s
    /\ pc = "init"
    /\ stack = <<>>
    /\ freq = 0
    /\ seekDir = 0
    /\ sfbl = FALSE
    /\ result = 0
    /\ chip = ChipReset
    /\ tx = <<>>
    /\ hs = "Idle"
    /\ scArg = 0
    /\ scNack = FALSE
    /\ icFreq0 = 0
    /\ opNack = FALSE
    /\ putRes = -1
    /\ op = "none"
    /\ lastRet = "none"
    /\ volume = 0
    /\ en = FALSE
    /\ GPIO = 0
    /\ val = 0
    /\ opLog = <<>>
    /\ prev = <<"none", FALSE, 0>>
    /\ faults = nf
    /\ nops = 0

\* the program's object: the constructor's default arguments
Init == Constructed(BAND_US_EU, SPACE_100KHz, 0) /\ PeriphReset

\* the values of the 2-bit band and spacing selectors; 3 selects nothing
Selectors == 0..3

\* every value of the two selectors, on a bus that acknowledges every transfer
InitSelectors ==
    /\ \E b \in Selectors, s \in Selectors : Constructed(b, s, MaxFaults)
    /\ PeriphReset

\* every region and spacing, on a bus that acknowledges every transfer
InitRegions ==
    /\ \E b \in Bands, s \in Spaces : Constructed(b, s, MaxFaults)
    /\ PeriphReset

(***************************************************************************)
(* start() and powerUp()                                                   *)
(***************************************************************************)
\* start(): bus2Wire() resets the chip; then powerUp() is called
Start_bus2Wire ==
    /\ pc = "init"
    /\ chip' = ChipReset
    /\ pc' = "pu_read1"
    /\ stack' = <<"st_read">>
    /\ op' = "start"
    /\ opLog' = <<>>
    /\ tx' = <<>> /\ putRes' = -1 /\ lastRet' = "none"
    /\ UNCHANGED <<shadow, cfgVars, freq, seekDir, argVars, sfbl, result, hs, scArg,
                   scNack, icFreq0, opNack, prev, periphVars, faults, nops>>

PowerUp_read1 ==
    /\ pc = "pu_read1"
    /\ ReadStep(FALSE)
    /\ pc' = "pu_set1"
    /\ UNCHANGED <<cfgVars, stack, freq, seekDir, argVars, sfbl, result, scArg, icFreq0, op, nops>>

\* a powerUp that enables the device in its first write
PowerUp_set1Enable ==
    /\ pc = "pu_set1"
    /\ shadow' = Set(shadow, F_ENABLE, 1)
    /\ pc' = "pu_write1"
    /\ Local
    /\ UNCHANGED <<cfgVars, stack, freq, seekDir, argVars, sfbl, result, scArg, icFreq0, op, nops>>

PowerUp_set1 ==
    /\ pc = "pu_set1"
    /\ shadow' = Set(shadow, F_XOSCEN, 1)
    /\ pc' = "pu_write1"
    /\ Local
    /\ UNCHANGED <<cfgVars, stack, freq, seekDir, argVars, sfbl, result, scArg, icFreq0, op, nops>>

PowerUp_write1 ==
    /\ pc = "pu_write1"
    /\ CallPutShadowDelay(500)
    /\ pc' = "pu_read2"
    /\ UNCHANGED <<cfgVars, stack, freq, seekDir, argVars, sfbl, result, scArg, icFreq0, op, nops>>

PowerUp_read2 ==
    /\ pc = "pu_read2"
    /\ ReadStep(FALSE)
    /\ pc' = "pu_set2"
    /\ UNCHANGED <<cfgVars, stack, freq, seekDir, argVars, sfbl, result, scArg, icFreq0, op, nops>>

PowerUp_set2 ==
    /\ pc = "pu_set2"
    /\ shadow' = Set(Set(Set(shadow, F_ENABLE, 1), F_DISABLE, 0), F_DMUTE, 1)
    /\ pc' = "pu_write2"
    /\ Local
    /\ UNCHANGED <<cfgVars, stack, freq, seekDir, argVars, sfbl, result, scArg, icFreq0, op, nops>>

\* the last putShadow of powerUp, then the return to the caller
PowerUp_write2 ==
    /\ pc = "pu_write2"
    /\ CallPutShadowDelay(110)
    /\ pc' = Head(stack)
    /\ stack' = Tail(stack)
    /\ UNCHANGED <<cfgVars, freq, seekDir, argVars, sfbl, result, scArg, icFreq0, op, nops>>

Start_read ==
    /\ pc = "st_read"
    /\ ReadStep(FALSE)
    /\ pc' = "st_config"
    /\ UNCHANGED <<cfgVars, stack, freq, seekDir, argVars, sfbl, result, scArg, icFreq0, op, nops>>

\* the fields start() sets between its getShadow and its putShadow
StartConfig(sh) ==
    LET s01 == Set(sh,  F_SPACE,   space)
        s02 == Set(s01, F_BAND,    band)
        s03 == Set(s02, F_DE,      DE_75us)
        s04 == Set(s03, F_STCIEN,  0)
        s05 == Set(s04, F_SEEK,    0)
        s06 == Set(s05, F_SEEKUP,  1)
        s07 == Set(s06, F_SKMODE,  SKMODE_STOP)
        s08 == Set(s07, F_SEEKTH,  SEEKTH_DEF)
        s09 == Set(s08, F_SKCNT,   SKCNT_DEF)
        s10 == Set(s09, F_SKSNR,   SKSNR_DEF)
        s11 == Set(s10, F_AGCD,    AGCD_DEF)
        s12 == Set(s11, F_RDSIEN,  0)
        s13 == Set(s12, F_RDSM,    0)
        s14 == Set(s13, F_RDS,     1)
        s15 == Set(s14, F_AHIZEN,  0)
        s16 == Set(s15, F_MONO,    0)
        s17 == Set(s16, F_BLNDADJ, BLA_31_49)
        s18 == Set(s17, F_VOLUME,  0)
        s19 == Set(s18, F_VOLEXT,  0)
        s20 == Set(s19, F_DSMUTE,  1)
        s21 == Set(s20, F_SMUTEA,  SMA_16dB)
        s22 == Set(s21, F_SMUTER,  SMRR_Fastest)
        s23 == Set(s22, F_GPIO1,   GPIO_Z)
        s24 == Set(s23, F_GPIO2,   GPIO_Z)
    IN  Set(s24, F_GPIO3, GPIO_Z)

Start_config ==
    /\ pc = "st_config"
    /\ bandStart' = RegionStart(band, bandStart)
    /\ bandEnd' = RegionEnd(band, bandEnd)
    /\ bandSpacing' = RegionSpacing(space, bandSpacing)
    /\ shadow' = StartConfig(shadow)
    /\ pc' = "st_write"
    /\ Local
    /\ UNCHANGED <<band, space, stack, freq, seekDir, argVars, sfbl, result, scArg, icFreq0, op, nops>>

Start_write ==
    /\ pc = "st_write"
    /\ CallPutShadow
    /\ pc' = "idle"
    /\ UNCHANGED <<cfgVars, stack, freq, seekDir, argVars, sfbl, result, scArg, icFreq0, op, nops>>

(***************************************************************************)
(* getChannel()                                                            *)
(***************************************************************************)
\* Freq = Spacing * Channel + Bottom of Band
ChannelFreq(sh) == bandSpacing * Get(sh, F_READCHAN) + bandStart

\* the call in progress has none of the parameters volume, en, GPIO, val
NoArgs == volume' = 0 /\ en' = FALSE /\ GPIO' = 0 /\ val' = 0

\* a public call: the observers and the locals start afresh
\* the operations that assign one field of the shadow from their argument,
\* and the accessors of the same fields
FieldSetters == {"setMono", "setMute", "setVolExt", "setVolume"}
FieldGetters == {"getMono", "getMute", "getVolExt", "getVolume"}

\* prev when the call is not an accessor that follows a setter
NoPrev == <<"none", FALSE, 0>>

Enter(name) ==
    /\ pc = "idle"
    /\ op' = name
    /\ opNack' = FALSE
    /\ opLog' = <<>>
    /\ prev' = IF name \in FieldGetters /\ op \in FieldSetters
               THEN <<op, en, volume>> ELSE NoPrev
    /\ tx' = <<>> /\ putRes' = -1
    /\ lastRet' = "none"
    /\ UNCHANGED <<shadow, cfgVars, hs, chip, faults>>

\* a public call made directly on the object, MaxOps of them at most
Call(name) ==
    /\ Enter(name)
    /\ nops < MaxOps
    /\ nops' = nops + 1
    /\ UNCHANGED periphVars

GetChannel_call ==
    /\ Call("getChannel")
    /\ pc' = "gc_read"
    /\ stack' = <<"idle">>
    /\ freq' = 0 /\ seekDir' = 0 /\ sfbl' = FALSE /\ result' = 0 /\ icFreq0' = 0
    /\ NoArgs
    /\ UNCHANGED <<scArg, scNack>>

\* getChannel(), as called by the public and by incChannel / decChannel
GetChannel_read ==
    /\ pc = "gc_read"
    /\ CallGetShadow(FALSE, FALSE)
    /\ Return("getChannel", ChannelFreq(shadow'))
    /\ UNCHANGED <<cfgVars, freq, seekDir, argVars, sfbl, scArg, icFreq0, op, nops>>

(***************************************************************************)
(* setChannel(freq)                                                        *)
(***************************************************************************)
\* a setChannel without the two clamps
ClampNone(f) == f

\* the two clamps at the head of setChannel
Clamp(f) ==
    LET f1 == IF f > bandEnd THEN bandEnd ELSE f
    IN  IF f1 < bandStart THEN bandStart ELSE f1

\* C integer division (truncation), for a divisor > 0
CDiv(a, b) == IF a >= 0 THEN a \div b ELSE -((-a) \div b)

\* the channel above the one the frequency falls in
\* a channel number that is the distance from the band start in 10 kHz units
ChanOfUndivided(f) == f - bandStart

ChanOfNext(f) == CDiv(f - bandStart, bandSpacing) + 1

\* Channel = (Freq - bandStart) / Spacing
ChanOf(f) == CDiv(f - bandStart, bandSpacing)

\* frequencies the callers pass
FreqInputs ==
    {0, bandStart - 1, bandStart, bandStart + bandSpacing + 2, 10700,
     bandEnd, bandEnd + 1, 32767}

\* entry of setChannel with argument f: the clamps
SetChannel_enter(f) ==
    /\ scArg' = f
    /\ scNack' = FALSE
    /\ freq' = Clamp(f)
    /\ pc' = "sc_read1"

SetChannel_call ==
    /\ Call("setChannel")
    /\ \E f \in FreqInputs : SetChannel_enter(f)
    /\ stack' = <<"idle">>
    /\ seekDir' = 0 /\ sfbl' = FALSE /\ result' = 0 /\ icFreq0' = 0
    /\ NoArgs

SetChannel_read1 ==
    /\ pc = "sc_read1"
    /\ ReadStep(FALSE)
    /\ pc' = "sc_set1"
    /\ UNCHANGED <<cfgVars, stack, freq, seekDir, argVars, sfbl, result, scArg, icFreq0, op, nops>>

\* the values the division may leave in CHAN when _bandSpacing is 0: the
\* division by zero is undefined, any value of the field can result
DivByZeroChans == {0, 1023}

\* the values (freq - _bandStart) / _bandSpacing can have
ChanValues(f) == IF bandSpacing = 0 THEN DivByZeroChans ELSE {ChanOf(f)}

SetChannel_set1 ==
    /\ pc = "sc_set1"
    /\ \E ch \in ChanValues(freq) :
          shadow' = Set(Set(shadow, F_CHAN, ch), F_TUNE, 1)
    /\ pc' = "sc_write1"
    /\ Local
    /\ UNCHANGED <<cfgVars, stack, freq, seekDir, argVars, sfbl, result, scArg, icFreq0, op, nops>>

\* putShadow, then the choice between polling and the (empty) interrupt branch
\* a setChannel that skips the wait for STC when its write has failed
SetChannel_write1Checked ==
    /\ pc = "sc_write1"
    /\ CallPutShadow
    /\ pc' = IF Get(shadow, F_STCIEN) = 0 /\ putRes' = 0 THEN "sc_poll1" ELSE "sc_read2"
    /\ UNCHANGED <<cfgVars, stack, freq, seekDir, argVars, sfbl, result, scArg, icFreq0, op, nops>>

\* a setChannel that takes the empty interrupt branch
SetChannel_write1NoWait ==
    /\ pc = "sc_write1"
    /\ CallPutShadow
    /\ pc' = "sc_read2"
    /\ UNCHANGED <<cfgVars, stack, freq, seekDir, argVars, sfbl, result, scArg, icFreq0, op, nops>>

SetChannel_write1 ==
    /\ pc = "sc_write1"
    /\ CallPutShadow
    /\ pc' = IF Get(shadow, F_STCIEN) = 0 THEN "sc_poll1" ELSE "sc_read2"
    /\ UNCHANGED <<cfgVars, stack, freq, seekDir, argVars, sfbl, result, scArg, icFreq0, op, nops>>

\* a poll for completion that gives up after its first read
PollSetDoneOnce(sh) == TRUE

\* while (!getSTC());
PollSetDone(sh) == Get(sh, F_STC) = 1

SetChannel_poll1 ==
    /\ pc = "sc_poll1"
    /\ ReadStep(TRUE)
    /\ pc' = IF PollSetDone(shadow') THEN "sc_read2" ELSE "sc_poll1"
    /\ UNCHANGED <<cfgVars, stack, freq, seekDir, argVars, sfbl, result, scArg, icFreq0, op, nops>>

SetChannel_read2 ==
    /\ pc = "sc_read2"
    /\ ReadStep(FALSE)
    /\ pc' = "sc_set2"
    /\ UNCHANGED <<cfgVars, stack, freq, seekDir, argVars, sfbl, result, scArg, icFreq0, op, nops>>

\* a setChannel that leaves TUNE set after the tune has completed
SetChannel_set2Kept ==
    /\ pc = "sc_set2"
    /\ shadow' = shadow
    /\ pc' = "sc_write2"
    /\ Local
    /\ UNCHANGED <<cfgVars, stack, freq, seekDir, argVars, sfbl, result, scArg, icFreq0, op, nops>>

SetChannel_set2 ==
    /\ pc = "sc_set2"
    /\ shadow' = Set(shadow, F_TUNE, 0)
    /\ pc' = "sc_write2"
    /\ Local
    /\ UNCHANGED <<cfgVars, stack, freq, seekDir, argVars, sfbl, result, scArg, icFreq0, op, nops>>

SetChannel_write2 ==
    /\ pc = "sc_write2"
    /\ CallPutShadow
    /\ pc' = "sc_poll2"
    /\ UNCHANGED <<cfgVars, stack, freq, seekDir, argVars, sfbl, result, scArg, icFreq0, op, nops>>

\* a poll for the cleared flag that gives up after its first read
PollClearDoneOnce(sh) == TRUE

\* while (getSTC());
PollClearDone(sh) == Get(sh, F_STC) = 0

SetChannel_poll2 ==
    /\ pc = "sc_poll2"
    /\ ReadStep(TRUE)
    /\ pc' = IF PollClearDone(shadow') THEN "sc_getch" ELSE "sc_poll2"
    /\ UNCHANGED <<cfgVars, stack, freq, seekDir, argVars, sfbl, result, scArg, icFreq0, op, nops>>

\* return getChannel();
SetChannel_return ==
    /\ pc = "sc_getch"
    /\ CallGetShadow(FALSE, TRUE)
    /\ Return("setChannel", ChannelFreq(shadow'))
    /\ UNCHANGED <<cfgVars, freq, seekDir, argVars, sfbl, scArg, icFreq0, op, nops>>

(***************************************************************************)
(* incChannel() / decChannel()                                             *)
(***************************************************************************)
IncChannel_call ==
    /\ Call("incChannel")
    /\ pc' = "gc_read"
    /\ stack' = <<"ic_step", "idle">>
    /\ freq' = 0 /\ seekDir' = 0 /\ NoArgs /\ sfbl' = FALSE /\ result' = 0
    /\ scArg' = 0 /\ scNack' = FALSE /\ icFreq0' = 0

\* freq += _bandSpacing, without the wrap
IncNoWrap(f) == f + bandSpacing

\* freq += _bandSpacing, with the wrap to the bottom of the band
IncWrap(f) == IF f + bandSpacing > bandEnd THEN bandStart ELSE f + bandSpacing

\* the code of incChannel after its getChannel(): return setChannel(freq)
IncChannel_step ==
    /\ pc = "ic_step"
    /\ icFreq0' = result
    /\ SetChannel_enter(IncWrap(result))
    /\ NoBus
    /\ lastRet' = "none"
    /\ UNCHANGED <<shadow, cfgVars, stack, seekDir, argVars, sfbl, result, hs, opNack, op, nops>>

DecChannel_call ==
    /\ Call("decChannel")
    /\ pc' = "gc_read"
    /\ stack' = <<"dc_step", "idle">>
    /\ freq' = 0 /\ seekDir' = 0 /\ NoArgs /\ sfbl' = FALSE /\ result' = 0
    /\ scArg' = 0 /\ scNack' = FALSE /\ icFreq0' = 0

\* freq -= _bandSpacing, without the wrap
DecNoWrap(f) == f - bandSpacing

\* freq -= _bandSpacing, with the wrap to the top of the band
DecWrap(f) == IF f - bandSpacing < bandStart THEN bandEnd ELSE f - bandSpacing

DecChannel_step ==
    /\ pc = "dc_step"
    /\ icFreq0' = result
    /\ SetChannel_enter(DecWrap(result))
    /\ NoBus
    /\ lastRet' = "none"
    /\ UNCHANGED <<shadow, cfgVars, stack, seekDir, argVars, sfbl, result, hs, opNack, op, nops>>

(***************************************************************************)
(* seek(seekDirection), seekUp(), seekDown()                               *)
(***************************************************************************)
Seek_enter(d) ==
    /\ seekDir' = d
    /\ pc' = "sk_read1"

Seek_read1 ==
    /\ pc = "sk_read1"
    /\ ReadStep(FALSE)
    /\ pc' = "sk_set1"
    /\ UNCHANGED <<cfgVars, stack, freq, seekDir, argVars, sfbl, result, scArg, icFreq0, op, nops>>

\* a seek that also selects the wrap-around mode
Seek_set1Wrap ==
    /\ pc = "sk_set1"
    /\ shadow' = Set(Set(Set(shadow, F_SEEKUP, seekDir), F_SEEK, 1), F_SKMODE, 0)
    /\ pc' = "sk_write1"
    /\ Local
    /\ UNCHANGED <<cfgVars, stack, freq, seekDir, argVars, sfbl, result, scArg, icFreq0, op, nops>>

Seek_set1 ==
    /\ pc = "sk_set1"
    /\ shadow' = Set(Set(shadow, F_SEEKUP, seekDir), F_SEEK, 1)
    /\ pc' = "sk_write1"
    /\ Local
    /\ UNCHANGED <<cfgVars, stack, freq, seekDir, argVars, sfbl, result, scArg, icFreq0, op, nops>>

Seek_write1 ==
    /\ pc = "sk_write1"
    /\ CallPutShadow
    /\ pc' = IF Get(shadow, F_STCIEN) = 0 THEN "sk_poll1" ELSE "sk_read2"
    /\ UNCHANGED <<cfgVars, stack, freq, seekDir, argVars, sfbl, result, scArg, icFreq0, op, nops>>

\* while (!getSTC()) _delay_ms(40);
Seek_poll1 ==
    /\ pc = "sk_poll1"
    /\ ReadStep(TRUE)
    /\ pc' = IF PollSetDone(shadow') THEN "sk_read2" ELSE "sk_poll1"
    /\ UNCHANGED <<cfgVars, stack, freq, seekDir, argVars, sfbl, result, scArg, icFreq0, op, nops>>

Seek_read2 ==
    /\ pc = "sk_read2"
    /\ ReadStep(FALSE)
    /\ pc' = "sk_set2"
    /\ UNCHANGED <<cfgVars, stack, freq, seekDir, argVars, sfbl, result, scArg, icFreq0, op, nops>>

\* the bit another read of the status word would take for the local sfbl
SfblOfStc(sh) == Get(sh, F_STC) = 1

\* bool sfbl = shadow.reg.STATUSRSSI.bits.SFBL
SfblOf(sh) == Get(sh, F_SFBL) = 1

\* bool sfbl = SFBL; SEEK = 0
Seek_set2 ==
    /\ pc = "sk_set2"
    /\ sfbl' = SfblOf(shadow)
    /\ shadow' = Set(shadow, F_SEEK, 0)
    /\ pc' = "sk_write2"
    /\ opLog' = Append(opLog, LogSfbl(shadow))
    /\ tx' = <<>> /\ putRes' = -1 /\ lastRet' = "none"
    /\ UNCHANGED <<chip, faults, hs, scNack, opNack, prev, periphVars>>
    /\ UNCHANGED <<cfgVars, stack, freq, seekDir, argVars, result, scArg, icFreq0, op, nops>>

Seek_write2 ==
    /\ pc = "sk_write2"
    /\ CallPutShadow
    /\ pc' = "sk_poll2"
    /\ UNCHANGED <<cfgVars, stack, freq, seekDir, argVars, sfbl, result, scArg, icFreq0, op, nops>>

\* a seek that takes the fail flag from the read that saw STC clear
Seek_poll2Late ==
    /\ pc = "sk_poll2"
    /\ ReadStep(TRUE)
    /\ pc' = IF PollClearDone(shadow')
             THEN (IF SfblOf(shadow') THEN "sk_fail" ELSE "sk_getch")
             ELSE "sk_poll2"
    /\ UNCHANGED <<cfgVars, stack, freq, seekDir, argVars, sfbl, result, scArg, icFreq0, op, nops>>

\* while (getSTC()); then the choice between the two returns
Seek_poll2 ==
    /\ pc = "sk_poll2"
    /\ ReadStep(TRUE)
    /\ pc' = IF PollClearDone(shadow')
             THEN (IF sfbl THEN "sk_fail" ELSE "sk_getch")
             ELSE "sk_poll2"
    /\ UNCHANGED <<cfgVars, stack, freq, seekDir, argVars, sfbl, result, scArg, icFreq0, op, nops>>

\* if (sfbl) return 0;
Seek_fail ==
    /\ pc = "sk_fail"
    /\ Return("seek", 0)
    /\ hs' = HsAtReturn(hs)
    /\ NoBus
    /\ UNCHANGED <<shadow, cfgVars, freq, seekDir, argVars, sfbl, scArg, scNack, icFreq0,
                   opNack, op, nops>>

\* return getChannel();
Seek_return ==
    /\ pc = "sk_getch"
    /\ CallGetShadow(FALSE, TRUE)
    /\ Return("seek", ChannelFreq(shadow'))
    /\ UNCHANGED <<cfgVars, freq, seekDir, argVars, sfbl, scArg, icFreq0, op, nops>>

SeekUp_call ==
    /\ Call("seekUp")
    /\ Seek_enter(SEEK_UP)
    /\ stack' = <<"su_check", "idle">>
    /\ freq' = 0 /\ sfbl' = FALSE /\ result' = 0 /\ icFreq0' = 0
    /\ scArg' = 0 /\ scNack' = FALSE /\ NoArgs

\* seekUp retrying from the edge it has just run into
SeekUp_checkSameEdge ==
    /\ pc = "su_check"
    /\ IF result = 0
       THEN /\ SetChannel_enter(bandEnd)
            /\ stack' = <<"su_retry">> \o stack
            /\ lastRet' = "none"
            /\ UNCHANGED result
       ELSE /\ Return("seekUp", result)
            /\ UNCHANGED <<scArg, freq, scNack>>
    /\ NoBus
    /\ UNCHANGED <<shadow, cfgVars, seekDir, argVars, sfbl, hs, icFreq0, opNack, op, nops>>

\* if (result == 0) { setChannel(_bandStart); ... } return result;
SeekUp_check ==
    /\ pc = "su_check"
    /\ IF result = 0
       THEN /\ SetChannel_enter(bandStart)
            /\ stack' = <<"su_retry">> \o stack
            /\ lastRet' = "none"
            /\ UNCHANGED result
       ELSE /\ Return("seekUp", result)
            /\ UNCHANGED <<scArg, freq, scNack>>
    /\ NoBus
    /\ UNCHANGED <<shadow, cfgVars, seekDir, argVars, sfbl, hs, icFreq0, opNack, op, nops>>

\* result = seek(SEEK_UP); return result;
SeekUp_retry ==
    /\ pc = "su_retry"
    /\ Seek_enter(SEEK_UP)
    /\ Local
    /\ UNCHANGED <<shadow, cfgVars, stack, freq, argVars, sfbl, result, scArg, icFreq0,
                   op, nops>>

SeekDown_call ==
    /\ Call("seekDown")
    /\ Seek_enter(SEEK_DOWN)
    /\ stack' = <<"sd_check", "idle">>
    /\ freq' = 0 /\ sfbl' = FALSE /\ result' = 0 /\ icFreq0' = 0
    /\ scArg' = 0 /\ scNack' = FALSE /\ NoArgs

\* if (result == 0) { setChannel(_bandEnd); ... } return result;
SeekDown_check ==
    /\ pc = "sd_check"
    /\ IF result = 0
       THEN /\ SetChannel_enter(bandEnd)
            /\ stack' = <<"sd_retry">> \o stack
            /\ lastRet' = "none"
            /\ UNCHANGED result
       ELSE /\ Return("seekDown", result)
            /\ UNCHANGED <<scArg, freq, scNack>>
    /\ NoBus
    /\ UNCHANGED <<shadow, cfgVars, seekDir, argVars, sfbl, hs, icFreq0, opNack, op, nops>>

SeekDown_retry ==
    /\ pc = "sd_retry"
    /\ Seek_enter(SEEK_DOWN)
    /\ Local
    /\ UNCHANGED <<shadow, cfgVars, stack, freq, argVars, sfbl, result, scArg, icFreq0,
                   op, nops>>

(***************************************************************************)
(* The chip's own steps leave the program where it is.                     *)
(***************************************************************************)
Chip_complete ==
    /\ ChipComplete
    /\ tx' = <<>> /\ putRes' = -1 /\ lastRet' = "none"
    /\ UNCHANGED <<shadow, cfgVars, pc, stack, freq, seekDir, argVars, sfbl, result, hs,
                   scArg, scNack, icFreq0, opNack, op, opLog, prev, periphVars, faults, nops>>

Chip_clear ==
    /\ ChipClear
    /\ tx' = <<>> /\ putRes' = -1 /\ lastRet' = "none"
    /\ UNCHANGED <<shadow, cfgVars, pc, stack, freq, seekDir, argVars, sfbl, result, hs,
                   scArg, scNack, icFreq0, opNack, op, opLog, prev, periphVars, faults, nops>>

Next ==
    \/ Start_bus2Wire
    \/ PowerUp_read1 \/ PowerUp_set1 \/ PowerUp_write1
    \/ PowerUp_read2 \/ PowerUp_set2 \/ PowerUp_write2
    \/ Start_read \/ Start_config \/ Start_write
    \/ GetChannel_call \/ GetChannel_read
    \/ SetChannel_call
    \/ SetChannel_read1 \/ SetChannel_set1 \/ SetChannel_write1 \/ SetChannel_poll1
    \/ SetChannel_read2 \/ SetChannel_set2 \/ SetChannel_write2 \/ SetChannel_poll2
    \/ SetChannel_return
    \/ IncChannel_call \/ IncChannel_step
    \/ DecChannel_call \/ DecChannel_step
    \/ Seek_read1 \/ Seek_set1 \/ Seek_write1 \/ Seek_poll1
    \/ Seek_read2 \/ Seek_set2 \/ Seek_write2 \/ Seek_poll2
    \/ Seek_fail \/ Seek_return
    \/ SeekUp_call \/ SeekUp_check \/ SeekUp_retry
    \/ SeekDown_call \/ SeekDown_check \/ SeekDown_retry
    \/ Chip_complete \/ Chip_clear

Spec == Init /\ [][Next]_vars

SpecRegions == InitRegions /\ [][Next]_vars

SpecSelectors == InitSelectors /\ [][Next]_vars

(***************************************************************************)
(* getVolume(), setVolume(volume), incVolume(), decVolume()                *)
(***************************************************************************)
\* entry of opLog: the value a nested call returned to the public call
LogRet(fn, v) == <<"ret", fn, v>>

GetVolume_call ==
    /\ Call("getVolume")
    /\ pc' = "gv_read"
    /\ stack' = <<"idle">>
    /\ freq' = 0 /\ seekDir' = 0 /\ sfbl' = FALSE /\ result' = 0 /\ icFreq0' = 0
    /\ scArg' = 0 /\ scNack' = FALSE
    /\ NoArgs

\* getVolume(), as called by the public and by incVolume / decVolume
GetVolume_read ==
    /\ pc = "gv_read"
    /\ CallGetShadow(FALSE, FALSE)
    /\ Return("getVolume", Get(shadow', F_VOLUME))
    /\ UNCHANGED <<cfgVars, freq, seekDir, argVars, sfbl, scArg, icFreq0, op, nops>>

\* a setVolume without the two clamps
ClampVolumeNone(v) == v

\* the two clamps of setVolume
ClampVolume(v) ==
    LET v1 == IF v < 0 THEN 0 ELSE v
    IN  IF v1 > 15 THEN 15 ELSE v1

VolumeInputs == {-1, 0, 10, 15, 16}

SetVolume_enter(v) ==
    /\ volume' = v
    /\ pc' = "sv_read"
    /\ UNCHANGED <<en, GPIO, val>>

SetVolume_call ==
    /\ Call("setVolume")
    /\ \E v \in VolumeInputs : SetVolume_enter(v)
    /\ stack' = <<"idle">>
    /\ freq' = 0 /\ seekDir' = 0 /\ sfbl' = FALSE /\ result' = 0 /\ icFreq0' = 0
    /\ scArg' = 0 /\ scNack' = FALSE

SetVolume_read ==
    /\ pc = "sv_read"
    /\ ReadStep(FALSE)
    /\ pc' = "sv_set"
    /\ UNCHANGED <<cfgVars, stack, freq, seekDir, argVars, sfbl, result, scArg, icFreq0,
                   op, nops>>

SetVolume_set ==
    /\ pc = "sv_set"
    /\ volume' = ClampVolume(volume)
    /\ shadow' = Set(shadow, F_VOLUME, volume')
    /\ pc' = "sv_write"
    /\ Local
    /\ UNCHANGED <<cfgVars, stack, freq, seekDir, en, GPIO, val, sfbl, result, scArg,
                   icFreq0, op, nops>>

SetVolume_write ==
    /\ pc = "sv_write"
    /\ CallPutShadow
    /\ pc' = "sv_getvol"
    /\ UNCHANGED <<cfgVars, stack, freq, seekDir, argVars, sfbl, result, scArg, icFreq0,
                   op, nops>>

\* return (getVolume());
SetVolume_return ==
    /\ pc = "sv_getvol"
    /\ CallGetShadow(FALSE, FALSE)
    /\ Return("setVolume", Get(shadow', F_VOLUME))
    /\ UNCHANGED <<cfgVars, freq, seekDir, argVars, sfbl, scArg, icFreq0, op, nops>>

IncVolume_call ==
    /\ Call("incVolume")
    /\ pc' = "gv_read"
    /\ stack' = <<"iv_step", "idle">>
    /\ freq' = 0 /\ seekDir' = 0 /\ sfbl' = FALSE /\ result' = 0 /\ icFreq0' = 0
    /\ scArg' = 0 /\ scNack' = FALSE
    /\ NoArgs

\* setVolume(getVolume() + 1)
IncVolume_step ==
    /\ pc = "iv_step"
    /\ SetVolume_enter(result + 1)
    /\ opLog' = Append(opLog, LogRet("getVolume", result))
    /\ tx' = <<>> /\ putRes' = -1 /\ lastRet' = "none"
    /\ UNCHANGED <<shadow, cfgVars, stack, freq, seekDir, sfbl, result, chip, hs, scArg,
                   scNack, icFreq0, opNack, op, prev, periphVars, faults, nops>>

DecVolume_call ==
    /\ Call("decVolume")
    /\ pc' = "gv_read"
    /\ stack' = <<"dv_step", "idle">>
    /\ freq' = 0 /\ seekDir' = 0 /\ sfbl' = FALSE /\ result' = 0 /\ icFreq0' = 0
    /\ scArg' = 0 /\ scNack' = FALSE
    /\ NoArgs

\* setVolume(getVolume() - 1)
DecVolume_step ==
    /\ pc = "dv_step"
    /\ SetVolume_enter(result - 1)
    /\ opLog' = Append(opLog, LogRet("getVolume", result))
    /\ tx' = <<>> /\ putRes' = -1 /\ lastRet' = "none"
    /\ UNCHANGED <<shadow, cfgVars, stack, freq, seekDir, sfbl, result, chip, hs, scArg,
                   scNack, icFreq0, opNack, op, prev, periphVars, faults, nops>>

\* the steps of start(), powerUp() included
(***************************************************************************)
(* powerUp() and powerDown() as called by the public.                      *)
(***************************************************************************)
\* the locals and arguments of the other operations, none of them live
NoTuneLocals ==
    /\ freq' = 0 /\ seekDir' = 0 /\ sfbl' = FALSE /\ result' = 0 /\ icFreq0' = 0
    /\ scArg' = 0 /\ scNack' = FALSE

NoLocals == NoTuneLocals /\ NoArgs

PowerUp_call ==
    /\ Call("powerUp")
    /\ pc' = "pu_read1"
    /\ stack' = <<"idle">>
    /\ NoLocals

PowerDown_call ==
    /\ Call("powerDown")
    /\ pc' = "pd_read"
    /\ stack' = <<"idle">>
    /\ NoLocals

PowerDown_read ==
    /\ pc = "pd_read"
    /\ ReadStep(FALSE)
    /\ pc' = "pd_set"
    /\ UNCHANGED <<cfgVars, stack, freq, seekDir, argVars, sfbl, result, scArg, icFreq0, op, nops>>

\* a powerDown that leaves the general-purpose pins as they are
PowerDownFields(sh) ==
    Set(Set(Set(Set(sh, F_AHIZEN, 1), F_DMUTE, 0), F_ENABLE, 1), F_DISABLE, 1)

\* AHIZEN = 1; GPIO1 = GPIO2 = GPIO3 = GPIO_Z; DMUTE = 0; ENABLE = 1; DISABLE = 1
PowerDownShadow(sh) ==
    Set(Set(Set(Set(Set(Set(Set(sh, F_AHIZEN, 1),
        F_GPIO1, GPIO_Z), F_GPIO2, GPIO_Z), F_GPIO3, GPIO_Z),
        F_DMUTE, 0), F_ENABLE, 1), F_DISABLE, 1)

PowerDown_set ==
    /\ pc = "pd_set"
    /\ shadow' = PowerDownShadow(shadow)
    /\ pc' = "pd_write"
    /\ Local
    /\ UNCHANGED <<cfgVars, stack, freq, seekDir, argVars, sfbl, result, scArg, icFreq0, op, nops>>

\* putShadow(); _delay_ms(2); then the return to the caller
PowerDown_write ==
    /\ pc = "pd_write"
    /\ CallPutShadowDelay(2)
    /\ pc' = Head(stack)
    /\ stack' = Tail(stack)
    /\ UNCHANGED <<cfgVars, freq, seekDir, argVars, sfbl, result, scArg, icFreq0, op, nops>>

\* the power operations
PowerSteps ==
    \/ PowerUp_call
    \/ PowerDown_call \/ PowerDown_read \/ PowerDown_set \/ PowerDown_write

(***************************************************************************)
(* setMono(en), setMute(en), setVolExt(en): getShadow(); <field> = en;     *)
(* putShadow().  The three differ in the field alone, so they share their  *)
(* steps; op tells which of them is running.                               *)
(***************************************************************************)
\* the conversion of a bool to the value stored in a one-bit field
BoolVal(b) == IF b THEN 1 ELSE 0

FlagField(fn) ==
    CASE fn = "setMono" -> F_MONO
      [] fn = "setMute" -> F_DMUTE
      [] fn = "setVolExt" -> F_VOLEXT

\* an assignment of the flag to the whole register word
SetFlagWord(sh, f, e) == [sh EXCEPT ![f[1]] = BoolVal(e) * (2^(f[2]))]

\* shadow.reg.<REG>.bits.<FIELD> = en
SetFlag(sh, f, e) == Set(sh, f, BoolVal(e))

SetFlag_enter(e) ==
    /\ en' = e
    /\ pc' = "sf_read"
    /\ stack' = <<"idle">>
    /\ NoTuneLocals
    /\ UNCHANGED <<volume, GPIO, val>>

SetMono_call == Call("setMono") /\ \E e \in BOOLEAN : SetFlag_enter(e)

SetMute_call == Call("setMute") /\ \E e \in BOOLEAN : SetFlag_enter(e)

SetVolExt_call == Call("setVolExt") /\ \E e \in BOOLEAN : SetFlag_enter(e)

SetFlag_read ==
    /\ pc = "sf_read"
    /\ ReadStep(FALSE)
    /\ pc' = "sf_set"
    /\ UNCHANGED <<cfgVars, stack, freq, seekDir, argVars, sfbl, result, scArg, icFreq0, op, nops>>

SetFlag_set ==
    /\ pc = "sf_set"
    /\ shadow' = SetFlag(shadow, FlagField(op), en)
    /\ pc' = "sf_write"
    /\ Local
    /\ UNCHANGED <<cfgVars, stack, freq, seekDir, argVars, sfbl, result, scArg, icFreq0, op, nops>>

SetFlag_write ==
    /\ pc = "sf_write"
    /\ CallPutShadow
    /\ pc' = Head(stack)
    /\ stack' = Tail(stack)
    /\ UNCHANGED <<cfgVars, freq, seekDir, argVars, sfbl, result, scArg, icFreq0, op, nops>>

(***************************************************************************)
(* writeGPIO(GPIO, val)                                                    *)
(***************************************************************************)
\* the arguments tried: each pin, a pin number the switch does not know, and
\* a mode wider than the two bits of the field
GpioInputs ==
    {<<GPIO1, GPIO_High>>, <<GPIO2, GPIO_I>>, <<GPIO3, GPIO_Low>>,
     <<4, GPIO_High>>, <<GPIO1, 5>>}

\* switch (GPIO) { case GPIO1: ...GPIO1 = val; ... default: break; }
GpioShadow(sh, g, v) ==
    CASE g = GPIO1 -> Set(sh, F_GPIO1, v)
      [] g = GPIO2 -> Set(sh, F_GPIO2, v)
      [] g = GPIO3 -> Set(sh, F_GPIO3, v)
      [] OTHER -> sh

WriteGPIO_call ==
    /\ Call("writeGPIO")
    /\ \E a \in GpioInputs : GPIO' = a[1] /\ val' = a[2]
    /\ pc' = "wg_read"
    /\ stack' = <<"idle">>
    /\ NoTuneLocals
    /\ volume' = 0 /\ en' = FALSE

\* a writeGPIO that changes the shadow it happens to hold
WriteGPIO_noRead ==
    /\ pc = "wg_read"
    /\ pc' = "wg_set"
    /\ Local
    /\ UNCHANGED <<shadow, cfgVars, stack, freq, seekDir, argVars, sfbl, result, scArg,
                   icFreq0, op, nops>>

WriteGPIO_read ==
    /\ pc = "wg_read"
    /\ ReadStep(FALSE)
    /\ pc' = "wg_set"
    /\ UNCHANGED <<cfgVars, stack, freq, seekDir, argVars, sfbl, result, scArg, icFreq0, op, nops>>

WriteGPIO_set ==
    /\ pc = "wg_set"
    /\ shadow' = GpioShadow(shadow, GPIO, val)
    /\ pc' = "wg_write"
    /\ Local
    /\ UNCHANGED <<cfgVars, stack, freq, seekDir, argVars, sfbl, result, scArg, icFreq0, op, nops>>

WriteGPIO_write ==
    /\ pc = "wg_write"
    /\ CallPutShadow
    /\ pc' = Head(stack)
    /\ stack' = Tail(stack)
    /\ UNCHANGED <<cfgVars, freq, seekDir, argVars, sfbl, result, scArg, icFreq0, op, nops>>

\* the operations that set one field
SetterSteps ==
    \/ SetMono_call \/ SetMute_call \/ SetVolExt_call
    \/ SetFlag_read \/ SetFlag_set \/ SetFlag_write
    \/ WriteGPIO_call \/ WriteGPIO_read \/ WriteGPIO_set \/ WriteGPIO_write

(***************************************************************************)
(* The accessors getRSSI, getST, getMute, getMono, getVolExt, getPN,       *)
(* getMFGID, getREV, getDEV, getFIRMWARE: getShadow(); return <field>.     *)
(* They differ in the field alone and share their two steps.               *)
(***************************************************************************)
Accessors ==
    {"getRSSI", "getST", "getMute", "getMono", "getVolExt",
     "getPN", "getMFGID", "getREV", "getDEV", "getFIRMWARE"}

\* accessors that all return the stereo indicator
AccessorFieldStereo(fn) == F_ST

AccessorField(fn) ==
    CASE fn = "getRSSI" -> F_RSSI
      [] fn = "getST" -> F_ST
      [] fn = "getMute" -> F_DMUTE
      [] fn = "getMono" -> F_MONO
      [] fn = "getVolExt" -> F_VOLEXT
      [] fn = "getPN" -> F_PN
      [] fn = "getMFGID" -> F_MFGID
      [] fn = "getREV" -> F_REV
      [] fn = "getDEV" -> F_DEV
      [] fn = "getFIRMWARE" -> F_FIRMWARE

Accessor_call ==
    /\ \E fn \in Accessors : Call(fn)
    /\ pc' = "ac_read"
    /\ stack' = <<"idle">>
    /\ NoLocals

Accessor_read ==
    /\ pc = "ac_read"
    /\ CallGetShadow(FALSE, FALSE)
    /\ Return(op, Get(shadow', AccessorField(op)))
    /\ UNCHANGED <<cfgVars, freq, seekDir, argVars, sfbl, scArg, icFreq0, op, nops>>

AccessorSteps == Accessor_call \/ Accessor_read

StartSteps ==
    \/ Start_bus2Wire
    \/ PowerUp_read1 \/ PowerUp_set1 \/ PowerUp_write1
    \/ PowerUp_read2 \/ PowerUp_set2 \/ PowerUp_write2
    \/ Start_read \/ Start_config \/ Start_write

\* the volume operations
VolumeSteps ==
    \/ GetVolume_call \/ GetVolume_read
    \/ SetVolume_call \/ SetVolume_read \/ SetVolume_set \/ SetVolume_write
    \/ SetVolume_return
    \/ IncVolume_call \/ IncVolume_step
    \/ DecVolume_call \/ DecVolume_step

\* every operation of the object
NextApi == Next \/ VolumeSteps \/ PowerSteps \/ SetterSteps \/ AccessorSteps

NextCtl == StartSteps \/ VolumeSteps \/ PowerSteps \/ SetterSteps

\* the program's object under the audio and power operations
SpecCtl == Init /\ [][NextCtl]_vars

\* start(), setChannel and setVolume on a bus that may fail
NextWrites ==
    \/ StartSteps
    \/ SetChannel_call
    \/ SetChannel_read1 \/ SetChannel_set1 \/ SetChannel_write1 \/ SetChannel_poll1
    \/ SetChannel_read2 \/ SetChannel_set2 \/ SetChannel_write2 \/ SetChannel_poll2
    \/ SetChannel_return
    \/ SetVolume_call \/ SetVolume_read \/ SetVolume_set \/ SetVolume_write
    \/ SetVolume_return
    \/ Chip_complete \/ Chip_clear

SpecWrites == Init /\ [][NextWrites]_vars

\* the program's object under all its operations, when no transfer fails
InitApi == Constructed(BAND_US_EU, SPACE_100KHz, MaxFaults) /\ PeriphReset

SpecApi == InitApi /\ [][NextApi]_vars

(***************************************************************************)
(* Button: debounce and short / long press detection (Button.cpp).         *)
(* checkEvent is one step: it reads the pin and the time once.  The        *)
(* environment changes the pin at any moment and lets time pass between    *)
(* the calls; main() calls begin() before it enables the timer interrupt,  *)
(* so time starts when begin() has run.                                    *)
(***************************************************************************)

\* the values of timer_millis() at which something happens to the button:
\* pairs 50 / 51 apart for the debounce window, and presses that have lasted
\* 2499, 2500, 3000 and 3001 ms when measured from 51
ButtonInstants == {0, 50, 51, 101, 102, 2550, 2551, 3051, 3052, 3103, 3154, 3205}

\* currentTime - since in unsigned long; the counter does not wrap within the
\* instants above, and a stored time is never later than the current one
Elapsed(currentTime, since) == currentTime - since

\* checkEvent, the part that reports a long press (Button.cpp 96-107); the
\* mutant below reports LONG without recording that it did
LongPressRepeated(b, currentTime) ==
    IF b.isPressed /\ ~b.longPressReported /\ Elapsed(currentTime, b.pressStartTime) > 3000
    THEN [self |-> b, ev |-> "BTN_EVENT_LONG"]
    ELSE [self |-> b, ev |-> "BTN_EVENT_NONE"]

LongPress(b, currentTime) ==
    IF b.isPressed /\ ~b.longPressReported /\ Elapsed(currentTime, b.pressStartTime) > 3000
    THEN [self |-> [b EXCEPT !.longPressReported = TRUE], ev |-> "BTN_EVENT_LONG"]
    ELSE [self |-> b, ev |-> "BTN_EVENT_NONE"]

\* checkEvent, the debounce part (Button.cpp 58-92): the members after it, and
\* BTN_EVENT_SHORT if it returns early
Debounce(b, currentState, currentTime) ==
    LET b1 == [b EXCEPT !.lastDebounceTime =
                            IF currentState # b.lastFlickerableState
                            THEN currentTime ELSE b.lastDebounceTime,
                        !.lastFlickerableState = currentState]
        accepted == /\ Elapsed(currentTime, b1.lastDebounceTime) > 50
                    /\ currentState # b1.stableState
        b2 == IF ~accepted THEN b1
              ELSE IF currentState = 0
              THEN [b1 EXCEPT !.stableState = currentState,
                              !.pressStartTime = currentTime,
                              !.isPressed = TRUE,
                              !.longPressReported = FALSE]
              ELSE [b1 EXCEPT !.stableState = currentState, !.isPressed = FALSE]
        short == /\ accepted
                 /\ currentState # 0
                 /\ ~b1.longPressReported
                 /\ Elapsed(currentTime, b1.pressStartTime) < 2500
    IN  [self |-> b2, ev |-> IF short THEN "BTN_EVENT_SHORT" ELSE "BTN_EVENT_NONE"]

\* Button::checkEvent with the pin read as currentState at currentTime
CheckEvent(b, currentState, currentTime) ==
    LET d == Debounce(b, currentState, currentTime)
    IN  IF d.ev = "BTN_EVENT_SHORT" THEN d ELSE LongPress(d.self, currentTime)

\* Button::begin: the debounced state starts as the level the pin has
Button_begin ==
    /\ ~btnObs.began
    /\ button' = [button EXCEPT !.stableState = pin]
    /\ btnObs' = [btnObs EXCEPT !.began = TRUE, !.sample = pin, !.sampleSince = now,
                                !.stableWas = pin, !.pressAt = now,
                                !.heldAtBegin = (pin = 0)]
    /\ UNCHANGED <<now, pin, radioVars, uiVars, encoderVars, uartVars, timerVars>>

\* one call of checkEvent from the main loop
Button_checkEvent ==
    /\ btnObs.began
    /\ LET r == CheckEvent(button, pin, now)
           pressed == button.stableState # 0 /\ r.self.stableState = 0
           some == IF r.ev # "BTN_EVENT_NONE" THEN 1 ELSE 0
           long == IF r.ev = "BTN_EVENT_LONG" THEN 1 ELSE 0
       IN  /\ button' = r.self
           /\ btnObs' = [btnObs EXCEPT
                   !.called = TRUE,
                   !.ev = r.ev,
                   !.sample = pin,
                   !.sampleSince = IF pin # btnObs.sample THEN now ELSE @,
                   !.stableWas = button.stableState,
                   !.pressAt = IF pressed THEN now ELSE @,
                   !.cycleEvents = (IF pressed THEN 0 ELSE @) + some,
                   !.cycleLongs = (IF pressed THEN 0 ELSE @) + long]
    /\ UNCHANGED <<now, pin, radioVars, uiVars, encoderVars, uartVars, timerVars>>

\* the button is pressed or released, or its contact bounces
Button_pin ==
    /\ pin' = 1 - pin
    /\ btnObs' = [btnObs EXCEPT !.called = FALSE]
    /\ UNCHANGED <<now, button, radioVars, uiVars, encoderVars, uartVars, timerVars>>

\* time passes between two calls
Button_tick ==
    /\ btnObs.began
    /\ \E t \in ButtonInstants : t > now /\ now' = t
    /\ btnObs' = [btnObs EXCEPT !.called = FALSE]
    /\ UNCHANGED <<pin, button, radioVars, uiVars, encoderVars, uartVars, timerVars>>

NextButton == Button_begin \/ Button_checkEvent \/ Button_pin \/ Button_tick

SpecButton == Init /\ [][NextButton]_vars

(***************************************************************************)
(* RotaryEncoder: click with its dead time, and the quadrature decoder     *)
(* (RotaryEncoder.cpp).  checkEvent is one step; the environment changes   *)
(* the three inputs one at a time and lets time pass between the calls.    *)
(***************************************************************************)

\* the values of timer_millis() at which something happens to the encoder:
\* 250 and 251 ms after start-up and after a click, and 100, 150, 151 ms
\* after a click
EncoderInstants == {0, 250, 251, 351, 401, 402, 501, 502, 753}

\* static GRAY_MAP[4] of checkEvent, indexed from 1 here; the mutant below
\* takes the raw sample as the state
GRAY_MAP_raw == <<0, 1, 2, 3>>

GRAY_MAP == <<0, 1, 3, 2>>

\* static ROTARY_TABLE[4][4] of checkEvent, rows and columns indexed from 1
ROTARY_TABLE ==
    << << 0,  1,  0, -1>>,
       <<-1,  0,  1,  0>>,
       << 0, -1,  0,  1>>,
       << 1,  0, -1,  0>> >>

\* (clk << 1) | dt
RawState(clk, dt) == 2 * clk + dt

\* checkEvent, the click (RotaryEncoder.cpp 76-89): EVENT_BUTTON and the
\* members after it, or EVENT_NONE if the call goes on to the decoder
Click(e, sw, t) ==
    IF sw = 0 /\ Elapsed(t, e.lastButtonPress) > 250
    THEN [self |-> [e EXCEPT !.lastButtonPress = t, !.lastRotaryEvent = t + 150],
          ev |-> "EVENT_BUTTON"]
    ELSE [self |-> e, ev |-> "EVENT_NONE"]

\* checkEvent, the decoder (RotaryEncoder.cpp 96-144)
Decode(e, clk, dt) ==
    LET newState == GRAY_MAP[RawState(clk, dt) + 1]
        movement == ROTARY_TABLE[e.lastState + 1][newState + 1]
    IN  [self |-> [e EXCEPT !.lastState = newState],
         ev |-> IF movement = 1 THEN "EVENT_CCW"
                ELSE IF movement = -1 THEN "EVENT_CW"
                ELSE "EVENT_NONE"]

\* RotaryEncoder::checkEvent with the inputs read as sw, clk, dt at time t
EncoderCheckEvent(e, sw, clk, dt, t) ==
    LET c == Click(e, sw, t)
    IN  IF c.ev = "EVENT_BUTTON" THEN c ELSE Decode(e, clk, dt)

\* RotaryEncoder::begin
Encoder_begin ==
    /\ ~encObs.began
    /\ encoder' = [encoder EXCEPT !.lastCLKState = encPins.clk]
    /\ encObs' = [encObs EXCEPT !.began = TRUE]
    /\ UNCHANGED <<now, encPins, radioVars, uiVars, buttonVars, uartVars, timerVars>>

\* one call of checkEvent from the main loop
Encoder_checkEvent ==
    /\ encObs.began
    /\ LET r == EncoderCheckEvent(encoder, encPins.sw, encPins.clk, encPins.dt, now)
           click == r.ev = "EVENT_BUTTON"
       IN  /\ encoder' = r.self
           /\ encObs' = [encObs EXCEPT
                   !.called = TRUE,
                   !.ev = r.ev,
                   !.clicked = @ \/ click,
                   !.clickAt = IF click THEN now ELSE @,
                   !.clickGap = IF click /\ encObs.clicked
                                THEN now - encObs.clickAt ELSE @,
                   !.rawWas = IF click THEN @ ELSE encObs.rawNow,
                   !.rawNow = IF click THEN @ ELSE RawState(encPins.clk, encPins.dt)]
    /\ UNCHANGED <<now, encPins, radioVars, uiVars, buttonVars, uartVars, timerVars>>

\* the knob is pressed, released, or turned by one edge
Encoder_pins ==
    /\ \E i \in {"sw", "clk", "dt"} : encPins' = [encPins EXCEPT ![i] = 1 - @]
    /\ encObs' = [encObs EXCEPT !.called = FALSE]
    /\ UNCHANGED <<now, encoder, radioVars, uiVars, buttonVars, uartVars, timerVars>>

\* time passes between two calls
Encoder_tick ==
    /\ encObs.began
    /\ \E t \in EncoderInstants : t > now /\ now' = t
    /\ encObs' = [encObs EXCEPT !.called = FALSE]
    /\ UNCHANGED <<encPins, encoder, radioVars, uiVars, buttonVars, uartVars, timerVars>>

NextEncoder == Encoder_begin \/ Encoder_checkEvent \/ Encoder_pins \/ Encoder_tick

SpecEncoder == Init /\ [][NextEncoder]_vars

(***************************************************************************)
(* UART0 transmit path (uart.c): uart_putc in the main context, one step   *)
(* per access to a volatile object, against the data-register-empty        *)
(* interrupt, which runs to completion between any two of those steps      *)
(* while it is enabled and the data register is empty.                     *)
(***************************************************************************)

\* how many bytes are passed to uart_putc: enough to fill the ring and wrap
MaxPuts == 66

\* the byte passed by the n-th call: all different until they repeat modulo
\* 256, so a lost, repeated or misplaced byte shows
PutData(n) == n % 256

\* (i + 1) & UART_TX_BUFFER_MASK
NextIndex(i) == (i + 1) % UART_TX_BUFFER_SIZE

\* the byte the interrupt writes to UART0_DATA, having advanced the tail to
\* tmptail
IsrByte(u, tmptail) == u.TxBuf[tmptail]

\* uart_putc(data): tmphead = (UART_TxHead + 1) & UART_TX_BUFFER_MASK
Putc_call ==
    /\ putc.pc = "idle"
    /\ Len(uartObs.given) < MaxPuts
    /\ LET data == PutData(Len(uartObs.given) + 1)
       IN  /\ putc' = [putc EXCEPT !.pc = "wait", !.data = data,
                                   !.tmphead = NextIndex(uart.TxHead)]
           /\ uartObs' = [uartObs EXCEPT !.given = Append(@, data)]
    /\ UNCHANGED <<uart, now, radioVars, uiVars, buttonVars, encoderVars, timerVars>>

\* while (tmphead == UART_TxTail): the ring is full, the call stays in the loop
Putc_full ==
    /\ putc.pc = "wait"
    /\ putc.tmphead = uart.TxTail
    /\ ~uartObs.waited
    /\ uartObs' = [uartObs EXCEPT !.waited = TRUE]
    /\ UNCHANGED <<uart, putc, now, radioVars, uiVars, buttonVars, encoderVars, timerVars>>

\* the loop ends; the mutant below leaves it with the ring still full
Putc_noWait ==
    /\ putc.pc = "wait"
    /\ putc' = [putc EXCEPT !.pc = "store"]
    /\ UNCHANGED <<uart, uartObs, now, radioVars, uiVars, buttonVars, encoderVars, timerVars>>

Putc_wait ==
    /\ putc.pc = "wait"
    /\ putc.tmphead # uart.TxTail
    /\ putc' = [putc EXCEPT !.pc = "store"]
    /\ UNCHANGED <<uart, uartObs, now, radioVars, uiVars, buttonVars, encoderVars, timerVars>>

\* UART_TxBuf[tmphead] = data
Putc_store ==
    /\ putc.pc = "store"
    /\ uart' = [uart EXCEPT !.TxBuf[putc.tmphead] = putc.data]
    /\ putc' = [putc EXCEPT !.pc = "head"]
    /\ UNCHANGED <<uartObs, now, radioVars, uiVars, buttonVars, encoderVars, timerVars>>

\* UART_TxHead = tmphead
Putc_head ==
    /\ putc.pc = "head"
    /\ uart' = [uart EXCEPT !.TxHead = putc.tmphead]
    /\ putc' = [putc EXCEPT !.pc = "ctl_read"]
    /\ UNCHANGED <<uartObs, now, radioVars, uiVars, buttonVars, encoderVars, timerVars>>

\* UART0_CONTROL |= _BV(UART0_UDRIE), the read
Putc_ctlRead ==
    /\ putc.pc = "ctl_read"
    /\ putc' = [putc EXCEPT !.pc = "ctl_write", !.ctl = uart.UDRIE]
    /\ UNCHANGED <<uart, uartObs, now, radioVars, uiVars, buttonVars, encoderVars, timerVars>>

\* UART0_CONTROL |= _BV(UART0_UDRIE), the write
Putc_ctlWrite ==
    /\ putc.pc = "ctl_write"
    /\ uart' = [uart EXCEPT !.UDRIE = TRUE]
    /\ putc' = [putc EXCEPT !.pc = "idle"]
    /\ UNCHANGED <<uartObs, now, radioVars, uiVars, buttonVars, encoderVars, timerVars>>

\* ISR(UART0_TRANSMIT_INTERRUPT)
Uart_isr ==
    /\ uart.UDRIE
    /\ uart.UDRE
    /\ IF uart.TxHead # uart.TxTail
       THEN LET tmptail == NextIndex(uart.TxTail)
            IN  /\ uart' = [uart EXCEPT !.TxTail = tmptail, !.UDRE = FALSE]
                /\ uartObs' = [uartObs EXCEPT !.sent = Append(@, IsrByte(uart, tmptail))]
       ELSE /\ uart' = [uart EXCEPT !.UDRIE = FALSE]
            /\ uartObs' = [uartObs EXCEPT
                               !.strandedOff = @ \/ (uart.TxHead # uart.TxTail)]
    /\ UNCHANGED <<putc, now, radioVars, uiVars, buttonVars, encoderVars, timerVars>>

\* the transmitter moves the byte to its shift register: the data register
\* is empty again
Uart_shift ==
    /\ ~uart.UDRE
    /\ uart' = [uart EXCEPT !.UDRE = TRUE]
    /\ UNCHANGED <<putc, uartObs, now, radioVars, uiVars, buttonVars, encoderVars, timerVars>>

NextUart ==
    \/ Putc_call \/ Putc_full \/ Putc_wait \/ Putc_store \/ Putc_head
    \/ Putc_ctlRead \/ Putc_ctlWrite \/ Uart_isr \/ Uart_shift

SpecUart == Init /\ [][NextUart]_vars

(***************************************************************************)
(* timer_millis against the TIMER0 overflow interrupt (main.cpp 43-73).    *)
(* The 32-bit counter is read one byte per step; the interrupt runs whole  *)
(* between any two steps of the call while the I bit is set.               *)
(***************************************************************************)

\* how many overflow interrupts are served
MaxOverflows == 3

\* values of millis_counter below a carry into its second, third and fourth
\* byte, and below its wrap to zero
Uptimes ==
    {<<255, 0, 0, 0>>, <<255, 255, 0, 0>>, <<255, 255, 255, 0>>,
     <<254, 255, 255, 255>>, <<255, 255, 255, 255>>}

\* millis_counter++ on the four bytes, modulo 2^32
Increment(c) ==
    LET c1 == (c[1] + 1) % 256
        k1 == IF c[1] = 255 THEN 1 ELSE 0
        c2 == (c[2] + k1) % 256
        k2 == IF c[2] + k1 = 256 THEN 1 ELSE 0
        c3 == (c[3] + k2) % 256
        k3 == IF c[3] + k2 = 256 THEN 1 ELSE 0
        c4 == (c[4] + k3) % 256
    IN  <<c1, c2, c3, c4>>

\* sei() in main, before the main loop
Main_sei ==
    /\ tm.pc = "idle"
    /\ ~timer.I
    /\ timer' = [timer EXCEPT !.I = TRUE]
    /\ UNCHANGED <<tm, tmObs, now, radioVars, uiVars, buttonVars, encoderVars, uartVars>>

\* the firmware has been running for a while: the counter has been
\* incremented up to one of the values above
Timer_uptime ==
    /\ tm.pc = "idle"
    /\ timer.I
    /\ timer.millis_counter = <<0, 0, 0, 0>>
    /\ \E c \in Uptimes : timer' = [timer EXCEPT !.millis_counter = c]
    /\ UNCHANGED <<tm, tmObs, now, radioVars, uiVars, buttonVars, encoderVars, uartVars>>

\* Timer/Counter0 overflows
Timer_overflow ==
    /\ ~timer.TOV
    /\ tmObs.overflows < MaxOverflows
    /\ timer' = [timer EXCEPT !.TOV = TRUE]
    /\ UNCHANGED <<tm, tmObs, now, radioVars, uiVars, buttonVars, encoderVars, uartVars>>

\* ISR(TIMER0_OVF_vect): millis_counter++
Timer_isr ==
    /\ timer.I
    /\ timer.TOV
    /\ LET c == Increment(timer.millis_counter)
       IN  /\ timer' = [timer EXCEPT !.millis_counter = c, !.TOV = FALSE]
           /\ tmObs' = [tmObs EXCEPT
                            !.overflows = @ + 1,
                            !.held = IF tm.pc = "idle" THEN @ ELSE @ \cup {c}]
    /\ UNCHANGED <<tm, now, radioVars, uiVars, buttonVars, encoderVars, uartVars>>

\* timer_millis is entered
Tm_call ==
    /\ tm.pc = "idle"
    /\ tm' = [TmIdle EXCEPT !.pc = "save"]
    /\ tmObs' = [tmObs EXCEPT !.held = {timer.millis_counter}, !.entryI = timer.I]
    /\ UNCHANGED <<timer, now, radioVars, uiVars, buttonVars, encoderVars, uartVars>>

\* uint8_t old = SREG
Tm_save ==
    /\ tm.pc = "save"
    /\ tm' = [tm EXCEPT !.pc = "cli", !.old = timer.I]
    /\ UNCHANGED <<timer, tmObs, now, radioVars, uiVars, buttonVars, encoderVars, uartVars>>

\* cli(); the mutant below goes on with the interrupts as they are
Tm_noCli ==
    /\ tm.pc = "cli"
    /\ tm' = [tm EXCEPT !.pc = "read"]
    /\ UNCHANGED <<timer, tmObs, now, radioVars, uiVars, buttonVars, encoderVars, uartVars>>

Tm_cli ==
    /\ tm.pc = "cli"
    /\ timer' = [timer EXCEPT !.I = FALSE]
    /\ tm' = [tm EXCEPT !.pc = "read"]
    /\ UNCHANGED <<tmObs, now, radioVars, uiVars, buttonVars, encoderVars, uartVars>>

\* m = millis_counter, one byte
Tm_read ==
    /\ tm.pc = "read"
    /\ tm' = [tm EXCEPT !.m[tm.k + 1] = timer.millis_counter[tm.k + 1],
                        !.k = @ + 1,
                        !.pc = IF tm.k = 3 THEN "restore" ELSE "read"]
    /\ UNCHANGED <<timer, tmObs, now, radioVars, uiVars, buttonVars, encoderVars, uartVars>>

\* SREG = old
Tm_restore ==
    /\ tm.pc = "restore"
    /\ timer' = [timer EXCEPT !.I = tm.old]
    /\ tm' = [tm EXCEPT !.pc = "return"]
    /\ UNCHANGED <<tmObs, now, radioVars, uiVars, buttonVars, encoderVars, uartVars>>

\* return m
Tm_return ==
    /\ tm.pc = "return"
    /\ tm' = [tm EXCEPT !.pc = "idle"]
    /\ UNCHANGED <<timer, tmObs, now, radioVars, uiVars, buttonVars, encoderVars, uartVars>>

NextTimer ==
    \/ Main_sei \/ Timer_uptime \/ Timer_overflow \/ Timer_isr
    \/ Tm_call \/ Tm_save \/ Tm_cli \/ Tm_read \/ Tm_restore \/ Tm_return

SpecTimer == Init /\ [][NextTimer]_vars

(***************************************************************************)
(* The UI layer (button_function.cpp) under main's start-up sequence and   *)
(* event loop (main.cpp).  main calls start(), setChannel(10700),          *)
(* setVolume(10), powerDown(), powerUp(), then hands UI events to          *)
(* radio_ui_handle_event one at a time; each call of the tuner runs to its *)
(* return (pc = "idle") before main or the handler goes on.                *)
(***************************************************************************)

\* how many UI events main's loop hands over
MaxEvents == 3

PowerOps == {"powerUp", "powerDown"}

\* the observer when the handler is entered with event ev
Arrive(ev) ==
    [uiObs EXCEPT !.ev = ev, !.done = FALSE, !.events = @ + 1, !.calls = 0,
                  !.onWas = ui.s_radio_on, !.modeWas = ui.s_mode,
                  !.before = <<shadow, chip, ui.s_favorite_freq>>]

\* the observer o when main or the handler calls operation name of the tuner
Called(o, name) ==
    [o EXCEPT !.calls = @ + 1, !.done = FALSE,
              !.lastPower = IF name \in PowerOps THEN name ELSE @]

\* main or the handler calls radio.<name>() and goes on at position p when
\* the call has returned; o is the observer before the call
UiCall(name, p, o) ==
    /\ Enter(name)
    /\ ui' = [ui EXCEPT !.pc = p]
    /\ uiObs' = Called(o, name)
    /\ UNCHANGED <<nops, driverVars>>

\* a step of the handler that calls nothing
UiOnly ==
    /\ pc = "idle"
    /\ tx' = <<>> /\ putRes' = -1 /\ lastRet' = "none"
    /\ UNCHANGED <<shadow, cfgVars, pc, stack, freq, seekDir, argVars, sfbl, result,
                   chip, hs, scArg, scNack, icFreq0, opNack, op, opLog, prev, faults,
                   nops, driverVars>>

\* the handler is entered: main's loop is between two events
Loop == ui.pc = "loop" /\ pc = "idle" /\ uiObs.events < MaxEvents

\* the argument and the locals of the operations the UI calls
TuneTo(f) ==
    /\ SetChannel_enter(f)
    /\ stack' = <<"idle">>
    /\ seekDir' = 0 /\ sfbl' = FALSE /\ result' = 0 /\ icFreq0' = 0
    /\ NoArgs

VolumeTo(v) ==
    /\ SetVolume_enter(v)
    /\ stack' = <<"idle">>
    /\ NoTuneLocals

SeekTo(d, check) ==
    /\ Seek_enter(d)
    /\ stack' = <<check, "idle">>
    /\ freq' = 0 /\ sfbl' = FALSE /\ result' = 0 /\ icFreq0' = 0
    /\ scArg' = 0 /\ scNack' = FALSE /\ NoArgs

Plain(p, st) == pc' = p /\ stack' = st /\ NoLocals

\* main: radio.setChannel(10700), once radio.start() has returned
Main_setChannel ==
    /\ ui.pc = "m_start"
    /\ UiCall("setChannel", "m_setVolume", uiObs)
    /\ TuneTo(10700)

\* main: radio.setVolume(10)
Main_setVolume ==
    /\ ui.pc = "m_setVolume"
    /\ UiCall("setVolume", "m_powerDown", uiObs)
    /\ VolumeTo(10)

\* main: radio.powerDown()
Main_powerDown ==
    /\ ui.pc = "m_powerDown"
    /\ UiCall("powerDown", "m_powerUp", uiObs)
    /\ Plain("pd_read", <<"idle">>)

\* main: radio.powerUp(); the loop follows
Main_powerUp ==
    /\ ui.pc = "m_powerUp"
    /\ UiCall("powerUp", "loop", uiObs)
    /\ Plain("pu_read1", <<"idle">>)

\* case UI_BTN_LEFT: radio.seekDown()
Ui_btnLeft ==
    /\ Loop
    /\ UiCall("seekDown", "break", Arrive("UI_BTN_LEFT"))
    /\ SeekTo(SEEK_DOWN, "sd_check")

\* case UI_BTN_RIGHT: radio.seekUp()
Ui_btnRight ==
    /\ Loop
    /\ UiCall("seekUp", "break", Arrive("UI_BTN_RIGHT"))
    /\ SeekTo(SEEK_UP, "su_check")

\* case UI_BTN_UP_SHORT: radio.setChannel(s_favorite_freq) if there is one
Ui_btnUpShort ==
    /\ Loop
    /\ IF ui.s_favorite_freq # 0
       THEN /\ UiCall("setChannel", "break", Arrive("UI_BTN_UP_SHORT"))
            /\ TuneTo(ui.s_favorite_freq)
       ELSE /\ UiOnly
            /\ ui' = [ui EXCEPT !.pc = "break"]
            /\ uiObs' = Arrive("UI_BTN_UP_SHORT")

\* case UI_BTN_UP_LONG: int current = radio.getChannel()
Ui_btnUpLong ==
    /\ Loop
    /\ UiCall("getChannel", "ul_store", Arrive("UI_BTN_UP_LONG"))
    /\ pc' = "gc_read" /\ stack' = <<"idle">>
    /\ freq' = 0 /\ seekDir' = 0 /\ sfbl' = FALSE /\ result' = 0 /\ icFreq0' = 0
    /\ NoArgs
    /\ UNCHANGED <<scArg, scNack>>

\* s_favorite_freq = current
Ui_btnUpLongStore ==
    /\ ui.pc = "ul_store"
    /\ UiOnly
    /\ ui' = [ui EXCEPT !.pc = "break", !.s_favorite_freq = result]
    /\ UNCHANGED uiObs

\* case UI_BTN_DOWN_SHORT: nothing if the radio is off, else
\* bool muted = radio.getMute()
Ui_btnDownShort ==
    /\ Loop
    /\ IF ~ui.s_radio_on
       THEN /\ UiOnly
            /\ ui' = [ui EXCEPT !.pc = "break"]
            /\ uiObs' = Arrive("UI_BTN_DOWN_SHORT")
       ELSE /\ UiCall("getMute", "ds_set", Arrive("UI_BTN_DOWN_SHORT"))
            /\ Plain("ac_read", <<"idle">>)

\* radio.setMute(!muted)
Ui_btnDownShortSet ==
    /\ ui.pc = "ds_set"
    /\ UiCall("setMute", "break", uiObs)
    /\ SetFlag_enter(result = 0)

\* case UI_BTN_DOWN_LONG: radio_toggle_power(), the call of powerDown() or
\* powerUp()
Ui_btnDownLong ==
    /\ Loop
    /\ IF ui.s_radio_on
       THEN /\ UiCall("powerDown", "tp_off", Arrive("UI_BTN_DOWN_LONG"))
            /\ Plain("pd_read", <<"idle">>)
       ELSE /\ UiCall("powerUp", "tp_on", Arrive("UI_BTN_DOWN_LONG"))
            /\ Plain("pu_read1", <<"idle">>)

\* a radio_toggle_power that leaves the flag as it is
Ui_powerFlagKept ==
    /\ ui.pc \in {"tp_off", "tp_on"}
    /\ UiOnly
    /\ ui' = [ui EXCEPT !.pc = "break"]
    /\ UNCHANGED uiObs

\* radio_toggle_power: s_radio_on = false after powerDown(), true after powerUp()
Ui_powerFlag ==
    /\ ui.pc \in {"tp_off", "tp_on"}
    /\ UiOnly
    /\ ui' = [ui EXCEPT !.pc = "break", !.s_radio_on = (ui.pc = "tp_on")]
    /\ UNCHANGED uiObs

\* a UI_ENC_STEP_CW that tunes in either mode
Ui_encStepCwTune ==
    /\ Loop
    /\ UiCall("incChannel", "break", Arrive("UI_ENC_STEP_CW"))
    /\ pc' = "gc_read" /\ stack' = <<"ic_step", "idle">>
    /\ NoLocals

\* case UI_ENC_STEP_CW: radio.incVolume() or radio.incChannel()
Ui_encStepCw ==
    /\ Loop
    /\ IF ui.s_mode = RADIO_MODE_VOLUME
       THEN /\ UiCall("incVolume", "break", Arrive("UI_ENC_STEP_CW"))
            /\ Plain("gv_read", <<"iv_step", "idle">>)
       ELSE /\ UiCall("incChannel", "break", Arrive("UI_ENC_STEP_CW"))
            /\ Plain("gc_read", <<"ic_step", "idle">>)

\* case UI_ENC_STEP_CCW: radio.decVolume() or radio.decChannel()
Ui_encStepCcw ==
    /\ Loop
    /\ IF ui.s_mode = RADIO_MODE_VOLUME
       THEN /\ UiCall("decVolume", "break", Arrive("UI_ENC_STEP_CCW"))
            /\ Plain("gv_read", <<"dv_step", "idle">>)
       ELSE /\ UiCall("decChannel", "break", Arrive("UI_ENC_STEP_CCW"))
            /\ Plain("gc_read", <<"dc_step", "idle">>)

\* case UI_ENC_CLICK: the mode becomes the other one
Ui_encClick ==
    /\ Loop
    /\ UiOnly
    /\ ui' = [ui EXCEPT !.pc = "break",
                        !.s_mode = IF @ = RADIO_MODE_VOLUME THEN RADIO_MODE_TUNE
                                   ELSE RADIO_MODE_VOLUME]
    /\ uiObs' = Arrive("UI_ENC_CLICK")

\* break: the handler returns to main's loop
Ui_break ==
    /\ ui.pc = "break"
    /\ UiOnly
    /\ ui' = [ui EXCEPT !.pc = "loop"]
    /\ uiObs' = [uiObs EXCEPT !.done = TRUE]

\* the steps inside the tuner's operations: what the processor executes
\* between a call and its return
ProgramSteps ==
    \/ StartSteps
    \/ GetChannel_read
    \/ SetChannel_read1 \/ SetChannel_set1 \/ SetChannel_write1 \/ SetChannel_poll1
    \/ SetChannel_read2 \/ SetChannel_set2 \/ SetChannel_write2 \/ SetChannel_poll2
    \/ SetChannel_return
    \/ IncChannel_step \/ DecChannel_step
    \/ Seek_read1 \/ Seek_set1 \/ Seek_write1 \/ Seek_poll1
    \/ Seek_read2 \/ Seek_set2 \/ Seek_write2 \/ Seek_poll2
    \/ Seek_fail \/ Seek_return
    \/ SeekUp_check \/ SeekUp_retry \/ SeekDown_check \/ SeekDown_retry
    \/ GetVolume_read \/ SetVolume_read \/ SetVolume_set \/ SetVolume_write
    \/ SetVolume_return \/ IncVolume_step \/ DecVolume_step
    \/ PowerDown_read \/ PowerDown_set \/ PowerDown_write
    \/ SetFlag_read \/ SetFlag_set \/ SetFlag_write
    \/ Accessor_read

\* the program's steps, and the chip's
TunerSteps == ProgramSteps \/ Chip_complete \/ Chip_clear

NextUi ==
    \/ Main_setChannel \/ Main_setVolume \/ Main_powerDown \/ Main_powerUp
    \/ Ui_btnLeft \/ Ui_btnRight \/ Ui_btnUpShort \/ Ui_btnUpLong \/ Ui_btnUpLongStore
    \/ Ui_btnDownShort \/ Ui_btnDownShortSet \/ Ui_btnDownLong \/ Ui_powerFlag
    \/ Ui_encStepCw \/ Ui_encStepCcw \/ Ui_encClick \/ Ui_break
    \/ TunerSteps

\* main and the UI layer on a bus that acknowledges every transfer
SpecUi == InitApi /\ [][NextUi]_vars

(***************************************************************************)
(* Tune and seek on a bus that acknowledges every transfer, with a         *)
(* processor that keeps executing the operation it is in and a chip that   *)
(* completes a command it was given and clears STC once the command bit    *)
(* is cleared.                                                             *)
(***************************************************************************)
\* the steps of tune and seek that read the chip or work on the shadow
TuneSteps ==
    \/ GetChannel_read
    \/ SetChannel_read1 \/ SetChannel_set1 \/ SetChannel_poll1
    \/ SetChannel_read2 \/ SetChannel_set2 \/ SetChannel_poll2
    \/ SetChannel_return
    \/ IncChannel_step \/ DecChannel_step
    \/ Seek_read1 \/ Seek_set1 \/ Seek_poll1
    \/ Seek_read2 \/ Seek_set2 \/ Seek_poll2
    \/ Seek_fail \/ Seek_return
    \/ SeekUp_check \/ SeekUp_retry \/ SeekDown_check \/ SeekDown_retry

\* putShadow returns to the operation that called it: the write steps of
\* tune and seek, by the program point they leave and the one they reach
TuneWrites ==
    \/ pc = "sc_write1" /\ pc' \in {"sc_poll1", "sc_read2"}
    \/ pc = "sc_write2" /\ pc' = "sc_poll2"
    \/ pc = "sk_write1" /\ pc' \in {"sk_poll1", "sk_read2"}
    \/ pc = "sk_write2" /\ pc' = "sk_poll2"

SpecLive ==
    /\ InitApi
    /\ [][Next]_vars
    /\ WF_vars(TuneSteps)
    /\ WF_pc(TuneWrites)
    /\ WF_vars(Chip_complete)
    /\ WF_vars(Chip_clear)

(***************************************************************************)
(* The tuner's operations in main's context with the interrupt handlers    *)
(* running between its steps: main enables interrupts before radio.start(),*)
(* prints on the UART between two operations of the tuner, and the timer   *)
(* and UART handlers are served whenever their interrupt is pending.       *)
(***************************************************************************)
\* sei(), just before radio.start()
Bus_sei == pc = "init" /\ Main_sei

\* operations of the tuner (start, the power operations and the getters),
\* called by main once interrupts are enabled and never from inside
\* uart_putc
BusTuner == timer.I /\ putc.pc = "idle" /\ (StartSteps \/ PowerSteps \/ AccessorSteps)

\* main prints a byte between two operations of the tuner
Bus_putc ==
    /\ pc = "idle"
    /\ \/ Len(uartObs.given) = 0 /\ Putc_call
       \/ Putc_wait \/ Putc_store \/ Putc_head \/ Putc_ctlRead \/ Putc_ctlWrite

NextBus ==
    \/ Bus_sei
    \/ BusTuner
    \/ Bus_putc
    \/ Timer_overflow \/ Timer_isr
    \/ Uart_isr \/ Uart_shift

SpecBus == Init /\ [][NextBus]_vars

(***************************************************************************)
(* A device that stops acknowledging reads while the program polls.  From  *)
(* then on the address byte of every read is answered with NACK; faults    *)
(* above MaxFaults records that the device has stopped.                    *)
(***************************************************************************)
Silent == faults > MaxFaults

\* the device stops during a poll
Device_stops ==
    /\ ~Silent
    /\ pc \in {"sc_poll1", "sc_poll2", "sk_poll1", "sk_poll2"}
    /\ faults' = MaxFaults + 1
    /\ tx' = <<>> /\ putRes' = -1 /\ lastRet' = "none"
    /\ UNCHANGED <<shadow, cfgVars, pc, stack, freq, seekDir, argVars, sfbl, result,
                   chip, hs, scArg, scNack, icFreq0, opNack, op, opLog, prev, nops,
                   periphVars>>

\* a getSTC() that zeroes the shadow when its read is not acknowledged
SilentReadCleared ==
    LET r == GetShadow(shadow, TWI_NACK, ChipReadData(chip))
    IN  /\ shadow' = [i \in DOMAIN shadow |-> 0]
        /\ tx' = r.log
        /\ hs' = HsAfterRead(HsAtPoll(hs), r.log)
        /\ scNack' = TRUE /\ opNack' = TRUE
        /\ putRes' = -1 /\ lastRet' = "none"
        /\ UNCHANGED <<chip, faults, opLog, prev, periphVars>>

\* getSTC() on the silent device: getShadow() sends the start and the
\* address, gets NACK, sends the stop and returns with the shadow as it was
SilentRead ==
    LET r == GetShadow(shadow, TWI_NACK, ChipReadData(chip))
    IN  /\ shadow' = r.shadow
        /\ tx' = r.log
        /\ hs' = HsAfterRead(HsAtPoll(hs), r.log)
        /\ scNack' = TRUE /\ opNack' = TRUE
        /\ putRes' = -1 /\ lastRet' = "none"
        /\ UNCHANGED <<chip, faults, opLog, prev, periphVars>>

SetChannel_poll1Silent ==
    /\ Silent
    /\ pc = "sc_poll1"
    /\ SilentRead
    /\ pc' = IF PollSetDone(shadow') THEN "sc_read2" ELSE "sc_poll1"
    /\ UNCHANGED <<cfgVars, stack, freq, seekDir, argVars, sfbl, result, scArg, icFreq0, op, nops>>

SetChannel_poll2Silent ==
    /\ Silent
    /\ pc = "sc_poll2"
    /\ SilentRead
    /\ pc' = IF PollClearDone(shadow') THEN "sc_getch" ELSE "sc_poll2"
    /\ UNCHANGED <<cfgVars, stack, freq, seekDir, argVars, sfbl, result, scArg, icFreq0, op, nops>>

Seek_poll1Silent ==
    /\ Silent
    /\ pc = "sk_poll1"
    /\ SilentRead
    /\ pc' = IF PollSetDone(shadow') THEN "sk_read2" ELSE "sk_poll1"
    /\ UNCHANGED <<cfgVars, stack, freq, seekDir, argVars, sfbl, result, scArg, icFreq0, op, nops>>

Seek_poll2Silent ==
    /\ Silent
    /\ pc = "sk_poll2"
    /\ SilentRead
    /\ pc' = IF PollClearDone(shadow')
             THEN (IF sfbl THEN "sk_fail" ELSE "sk_getch")
             ELSE "sk_poll2"
    /\ UNCHANGED <<cfgVars, stack, freq, seekDir, argVars, sfbl, result, scArg, icFreq0, op, nops>>

\* the program and the chip while the device answers
Answering == ~Silent /\ Next

\* the chip goes on completing and clearing while it answers no read
ChipWhileSilent == Silent /\ (Chip_complete \/ Chip_clear)

NextSilent ==
    \/ Answering
    \/ Device_stops
    \/ SetChannel_poll1Silent \/ SetChannel_poll2Silent
    \/ Seek_poll1Silent \/ Seek_poll2Silent
    \/ ChipWhileSilent

SpecSilent == Init /\ [][NextSilent]_vars

(***************************************************************************)
(* Properties of the tune / seek handshake.                                *)
(***************************************************************************)
Poll1 == {"sc_poll1", "sk_poll1"}
Poll2 == {"sc_poll2", "sk_poll2"}

\* the transaction log is a read transaction (SLA+R was sent)
IsReadTx(log) ==
    Len(log) > 2 /\ log[2][1] = "write" /\ log[2][2] = I2C_ADDR * 2 + TWI_READ

\* the transaction log is a read whose address was not acknowledged
ReadNacked(log) == IsReadTx(log) /\ log[2][3] = TWI_NACK

\* C1: setChannel and seek go through Idle -> Busy -> ResultReady ->
\* ClearingWait -> Idle in that order: the command write comes before any
\* poll, the command bit is cleared only after a read has seen STC set, and
\* the operation returns only after a later read has seen STC clear.  The
\* observer hs turns "Bad" when a step is skipped, repeated or out of order.
HandshakeInOrder ==
    /\ hs \in {"Idle", "Busy", "ResultReady", "ClearingWait"}
    /\ pc \in Poll1 => hs \in {"Busy", "ResultReady"}
    /\ pc \in {"sc_set2", "sc_write2", "sk_set2", "sk_write2"} => hs = "ResultReady"
    /\ pc \in Poll2 => hs \in {"ClearingWait", "Idle"}
    /\ pc \in {"sc_getch", "sk_getch", "sk_fail"} => hs = "Idle"
    /\ lastRet \in {"setChannel", "seek"} => hs = "Idle"

\* seekUp has run a seek that failed and the tune to the band start that
\* follows it: both handshakes are over and the tune has returned
HandshakeDone ==
    /\ op = "seekUp"
    /\ lastRet = "setChannel"
    /\ hs = "Idle"

\* the poll can never end: the chip has no command to complete (poll for STC
\* set) or still holds the command bit (poll for STC clear)
Hung ==
    \/ /\ pc \in Poll1
       /\ Get(shadow, F_STC) = 0
       /\ ChipField(chip, F_STC) = 0
       /\ ChipField(chip, F_TUNE) = 0
       /\ ChipField(chip, F_SEEK) = 0
    \/ /\ pc \in Poll2
       /\ Get(shadow, F_STC) = 1
       /\ ChipField(chip, F_STC) = 1
       /\ ChipField(chip, F_TUNE) = 1 \/ ChipField(chip, F_SEEK) = 1

\* C2: the polls have no bound and no timeout.  A poll for STC set is left
\* only by a read that shows STC set, a poll for STC clear only by a read
\* that shows STC clear; until then every step of the program is one more
\* read transaction, nothing is returned and no error value is produced; and
\* when the chip never reports the awaited value the poll goes on forever.
PollsUnbounded ==
    [][ /\ (pc \in Poll1 /\ pc' # pc) => (ReadOk(tx') /\ StcOnBus(tx') = 1)
        /\ (pc \in Poll2 /\ pc' # pc) => (ReadOk(tx') /\ StcOnBus(tx') = 0)
        /\ (pc \in Poll1 \cup Poll2 /\ chip' = chip) => IsReadTx(tx')
        /\ (pc \in Poll1 \cup Poll2 /\ pc' = pc) =>
                (lastRet' = "none" /\ result' = result /\ stack' = stack)
        /\ Hung => Hung' ]_vars

\* the command write of setChannel was lost, the chip has nothing to
\* complete, and the program has polled and polls again
PollingForever ==
    /\ pc = "sc_poll1"
    /\ Hung
    /\ ReadOk(tx)
    /\ StcOnBus(tx) = 0

(***************************************************************************)
(* Properties of getShadow().                                              *)
(***************************************************************************)
\* the i-th word (i = 0..15) received in a read transaction
WordOnBus(log, i) == log[3 + 2 * i][2] * 256 + log[4 + 2 * i][2]

\* C3: after an acknowledged getShadow, slot i holds the i-th word received,
\* upper byte first; slots 0..5 mirror registers 0x0A..0x0F and slots 6..15
\* mirror registers 0x00..0x09; all 16 slots are overwritten.
ShadowMirrorsChip ==
    ReadOk(tx) =>
        /\ \A i \in Slots : shadow[i] = WordOnBus(tx, i)
        /\ \A i \in 0..5 : shadow[i] = chip[10 + i]
        /\ \A i \in 6..15 : shadow[i] = chip[i - 6]

\* a read has just brought the chip's registers into the shadow while the
\* chip reports a finished tune: STATUSRSSI in slot 0, DEVICEID in slot 6
ShadowRead ==
    /\ ReadOk(tx)
    /\ shadow[SLOT_STATUSRSSI] = chip[10]
    /\ Get(shadow, F_STC) = 1
    /\ shadow[6] = 4674

\* C4: an acknowledged getShadow reads exactly 32 bytes, answers the first
\* 31 with ACK and the 32nd with NACK, and then issues exactly one stop.
ReadFraming ==
    ReadOk(tx) =>
        /\ Len(tx) = 35
        /\ tx[1] = EvStart
        /\ \A k \in 3..33 : tx[k][1] = "read" /\ tx[k][3] = TWI_ACK
        /\ tx[34][1] = "read" /\ tx[34][3] = TWI_NACK
        /\ tx[35] = EvStop
        /\ \A k \in 1..34 : tx[k] # EvStop

\* a complete read transaction has just been made
ReadFramed ==
    /\ ReadOk(tx)
    /\ Len(tx) = 35
    /\ tx[34][3] = TWI_NACK

\* C5: when the read address is not acknowledged, getShadow reads no data
\* byte, closes the transaction and leaves the shadow as it was; the caller
\* gets no indication: it goes on with the stale shadow (no error is
\* returned, and outside a poll the program moves to its next step).
ReadNackSilent ==
    [][ ReadNacked(tx') =>
            /\ tx' = <<EvStart, EvWrite(I2C_ADDR * 2 + TWI_READ, TWI_NACK), EvStop>>
            /\ shadow' = shadow
            /\ pc \notin Poll1 \cup Poll2 => pc' # pc
            /\ pc \in Poll1 => pc' = (IF Get(shadow, F_STC) = 1
                                      THEN (IF pc = "sc_poll1" THEN "sc_read2" ELSE "sk_read2")
                                      ELSE pc)
            /\ lastRet' # "none" => result' = ChannelFreq(shadow) ]_vars

\* a read was not acknowledged and the program went on
ReadNackSeen ==
    /\ ReadNacked(tx)
    /\ pc \notin {"init", "idle"}

(***************************************************************************)
(* Properties of putShadow().                                              *)
(***************************************************************************)
\* the transaction log is a write transaction (SLA+W was sent)
IsWriteTx(log) ==
    Len(log) > 2 /\ log[2][1] = "write" /\ log[2][2] = I2C_ADDR * 2 + TWI_WRITE

\* the k-th data byte (k = 1..12) of a write transaction of shadow sh
DataByte(sh, k) ==
    LET w == sh[SLOT_POWERCFG + (k - 1) \div 2]
    IN  IF k % 2 = 1 THEN w \div 256 ELSE w % 256

\* C6: when every byte is acknowledged, putShadow sends after the address
\* exactly 12 data bytes, the words of slots 8..13 in order, upper byte then
\* lower byte, then stops and returns 0.  In no write transaction is a byte
\* of another register sent: the k-th data byte is always the k-th byte of
\* slots 8..13 and there are never more than 12.
WriteFraming ==
    IsWriteTx(tx) =>
        /\ Len(tx) <= 15
        /\ tx[1] = EvStart
        /\ tx[Len(tx)] = EvStop
        /\ \A k \in 1..(Len(tx) - 3) :
              /\ tx[k + 2][1] = "write"
              /\ tx[k + 2][2] = DataByte(shadow, k)
        /\ ~HasNack(tx) =>
              /\ Len(tx) = 15
              /\ \A j \in 0..5 :
                    /\ tx[3 + 2 * j] = EvWrite(shadow[8 + j] \div 256, TWI_ACK)
                    /\ tx[4 + 2 * j] = EvWrite(shadow[8 + j] % 256, TWI_ACK)
              /\ putRes = 0

\* the tune command has just been written, every byte acknowledged
WriteComplete ==
    /\ IsWriteTx(tx)
    /\ ~HasNack(tx)
    /\ putRes = 0
    /\ Get(shadow, F_TUNE) = 1
    /\ ChipField(chip, F_TUNE) = 1

\* the position in a write transaction of the first byte that was not
\* acknowledged (2 is the address), 0 when all were acknowledged
FirstNack(log) ==
    IF HasNack(log)
    THEN CHOOSE k \in 2..Len(log) :
            /\ log[k][1] = "write" /\ log[k][3] = TWI_NACK
            /\ \A j \in 2..(k - 1) : log[j][3] = TWI_ACK
    ELSE 0

\* C7: putShadow returns 1 when the address, 2 when an upper byte, 3 when a
\* lower byte is not acknowledged, and 0 otherwise; at the first byte that is
\* not acknowledged it sends nothing further and issues exactly one stop; the
\* shadow is the same after the call as before, whatever the outcome.
WriteResult ==
    [][ IsWriteTx(tx') =>
            LET n == FirstNack(tx')
            IN  /\ shadow' = shadow
                /\ putRes' = (CASE n = 0 -> 0
                                [] n = 2 -> 1
                                [] n > 2 /\ n % 2 = 1 -> 2
                                [] OTHER -> 3)
                /\ n # 0 => Len(tx') = n + 1
                /\ n = 0 => Len(tx') = 15
                /\ tx'[Len(tx')] = EvStop
                /\ \A k \in 1..(Len(tx') - 1) : tx'[k] # EvStop ]_vars

\* a write has just stopped at a lower byte that was not acknowledged
WriteNackSeen ==
    /\ IsWriteTx(tx)
    /\ putRes = 3
    /\ Len(tx) < 15

(***************************************************************************)
(* Properties of tuning, for every region and spacing (SpecRegions: the    *)
(* chip acknowledges every transfer and echoes the commanded channel).     *)
(***************************************************************************)
\* the channel field in the CHANNEL word of a complete write transaction
ChanOnBus(log) == Field(log[5][2] * 256 + log[6][2], 0, 10)

\* the highest channel of the band
TopChan == (bandEnd - bandStart) \div bandSpacing

\* the tune command of setChannel has just been written
TuneWritten == pc = "sc_poll1" /\ IsWriteTx(tx) /\ ~HasNack(tx)

\* setChannel has just returned and no transfer failed since it was entered
TuneReturned == lastRet = "setChannel" /\ ~scNack

\* C8: setChannel(freq) with freq > bandEnd writes the same channel field
\* and returns the same value as setChannel(bandEnd); with freq < bandStart
\* the same as setChannel(bandStart).  Every request at or above bandEnd has
\* one outcome, every request at or below bandStart has one outcome.
ClampedTune ==
    /\ TuneWritten =>
          /\ scArg >= bandEnd => ChanOnBus(tx) = TopChan
          /\ scArg <= bandStart => ChanOnBus(tx) = 0
    /\ TuneReturned =>
          /\ scArg >= bandEnd => result = bandStart + TopChan * bandSpacing
          /\ scArg <= bandStart => result = bandStart

\* setChannel has returned from a request far above the band
ClampedHigh ==
    /\ TuneReturned
    /\ op = "setChannel"
    /\ scArg = 32767
    /\ result <= bandEnd

\* C9: for freq within [bandStart, bandEnd], setChannel(freq) returns
\* bandStart + k * spacing for some k >= 0, less than one spacing away from
\* freq; in the primary region with spacing 10, getChannel() after
\* setChannel(10700) returns 10700.
TuneOnGrid ==
    /\ (TuneReturned /\ scArg \in bandStart..bandEnd) =>
          /\ \E k \in 0..1023 : result = bandStart + k * bandSpacing
          /\ result - scArg < bandSpacing
          /\ scArg - result < bandSpacing
    /\ (pc = "idle" /\ nops = 0) =>
          \A f \in bandStart..bandEnd :
              LET r == bandSpacing * (ChanOf(Clamp(f)) % 1024) + bandStart
              IN  r <= f /\ f - r < bandSpacing /\ (r - bandStart) % bandSpacing = 0
    /\ (band = BAND_US_EU /\ space = SPACE_100KHz /\ scArg = 10700 /\ ~scNack) =>
          /\ TuneReturned => result = 10700
          /\ (op = "getChannel" /\ lastRet = "getChannel" /\ ~opNack) => result = 10700

\* getChannel() has returned 10700 after setChannel(10700)
TuneReadBack ==
    /\ op = "getChannel"
    /\ lastRet = "getChannel"
    /\ scArg = 10700
    /\ ~scNack
    /\ result = 10700
    /\ bandSpacing = 10

\* incChannel has just returned and no transfer failed during it
IncReturned == op = "incChannel" /\ lastRet = "setChannel" /\ ~opNack

\* C10: incChannel() when tuned to bandEnd (or, where bandEnd is not on the
\* channel grid, to the last channel below it) returns bandStart.
IncWrapsToStart ==
    (IncReturned /\ icFreq0 + bandSpacing > bandEnd) => result = bandStart

\* incChannel() at 10800 kHz has returned 8750 kHz
IncWrapped ==
    /\ IncReturned
    /\ icFreq0 = 10800
    /\ result = 8750

\* decChannel has just returned and no transfer failed during it
DecReturned == op = "decChannel" /\ lastRet = "setChannel" /\ ~opNack

\* C11, as stated: decChannel() when tuned to bandStart returns bandEnd.
DecWrapsToEnd ==
    (DecReturned /\ icFreq0 = bandStart) => result = bandEnd

\* C11, amended: decChannel() when tuned to bandStart returns the highest
\* channel of the band, bandStart + spacing * ((bandEnd - bandStart) /
\* spacing); that is bandEnd wherever bandEnd lies on the channel grid.
DecWrapsToTop ==
    (DecReturned /\ icFreq0 = bandStart) =>
        /\ result = bandStart + TopChan * bandSpacing
        /\ (bandEnd - bandStart) % bandSpacing = 0 => result = bandEnd
        /\ bandEnd - result < bandSpacing

\* decChannel() at 8750 kHz with the 200 kHz grid has returned 10790 kHz,
\* the last channel below bandEnd = 10800
DecWrapped ==
    /\ DecReturned
    /\ icFreq0 = bandStart
    /\ bandStart = 8750 /\ bandEnd = 10800 /\ bandSpacing = 20
    /\ result = 10790

(***************************************************************************)
(* Properties of the volume operations (SpecCtl).                          *)
(***************************************************************************)
\* the VOLUME field in the SYSCONFIG2 word of a complete write transaction
VolOnBus(log) == Field(log[9][2] * 256 + log[10][2], 0, 4)

\* incVolume / decVolume has returned, no transfer failed during it, and the
\* volume it read on entry was v
VolumeStepped(fn, v) ==
    /\ op = fn
    /\ lastRet = "setVolume"
    /\ ~opNack
    /\ Len(opLog) > 1
    /\ opLog[2] = LogRet("getVolume", v)

\* C12: setVolume(v) writes the volume field min(max(v, 0), 15) and returns a
\* value in 0..15 (the value written when no transfer fails); incVolume() at
\* 15 leaves the volume at 15 and decVolume() at 0 leaves it at 0; the volume
\* written is always within 0..15.
VolumeClamped ==
    [][ /\ pc = "sv_set" =>
              /\ volume' = (IF volume < 0 THEN 0 ELSE IF volume > 15 THEN 15 ELSE volume)
              /\ Get(shadow', F_VOLUME) = volume'
              /\ \A v \in -40..40 :
                    ClampVolume(v) = (IF v < 0 THEN 0 ELSE IF v > 15 THEN 15 ELSE v)
        /\ (pc = "sv_write" /\ IsWriteTx(tx') /\ ~HasNack(tx')) =>
              /\ volume \in 0..15
              /\ VolOnBus(tx') = volume
              /\ ChipField(chip', F_VOLUME) = volume
        /\ lastRet' = "setVolume" =>
              /\ result' \in 0..15
              /\ ~opNack' => result' = volume /\ ChipField(chip', F_VOLUME) = volume
        /\ VolumeStepped("incVolume", 15)' =>
              result' = 15 /\ ChipField(chip', F_VOLUME) = 15
        /\ VolumeStepped("decVolume", 0)' =>
              result' = 0 /\ ChipField(chip', F_VOLUME) = 0 ]_vars

\* incVolume() at volume 15 has returned 15
VolumeAtTop ==
    /\ VolumeStepped("incVolume", 15)
    /\ result = 15
    /\ ChipField(chip, F_VOLUME) = 15

(***************************************************************************)
(* Properties of the band configuration, for every value of the band and   *)
(* spacing selectors (SpecSelectors).                                      *)
(***************************************************************************)
\* C13: setRegion maps the region selector to exactly (8750, 10800),
\* (7600, 10800) or (7600, 9000) and the spacing selector to exactly 10, 20
\* or 5; for any other region selector the band limits, and for any other
\* spacing selector the spacing, keep the values they had before the call;
\* no error is raised: start() goes on to its write.
RegionTable ==
    [][ pc = "st_config" =>
            /\ band = BAND_US_EU => bandStart' = 8750 /\ bandEnd' = 10800
            /\ band = BAND_JPW => bandStart' = 7600 /\ bandEnd' = 10800
            /\ band = BAND_JP => bandStart' = 7600 /\ bandEnd' = 9000
            /\ band \notin Bands => bandStart' = bandStart /\ bandEnd' = bandEnd
            /\ space = SPACE_100KHz => bandSpacing' = 10
            /\ space = SPACE_200KHz => bandSpacing' = 20
            /\ space = SPACE_50KHz => bandSpacing' = 5
            /\ space \notin Spaces => bandSpacing' = bandSpacing
            /\ pc' = "st_write"
            /\ band' = band /\ space' = space ]_vars

\* setRegion has run with a spacing selector it does not know and with the
\* selector of the narrow secondary region
RegionUnknownSpacing ==
    /\ pc = "st_write"
    /\ space \notin Spaces
    /\ band = BAND_JP
    /\ bandStart = 7600 /\ bandEnd = 9000
    /\ bandSpacing = 0

\* start() has run setRegion
Configured ==
    pc \notin {"init", "pu_read1", "pu_set1", "pu_write1", "pu_read2", "pu_set2",
               "pu_write2", "st_read", "st_config"}

\* C14, as stated: once start() has configured the band, bandStart <= bandEnd
\* and spacing > 0, for every value of the selectors passed to the
\* constructor, so the division by spacing in setChannel is defined.
BandInvariant ==
    Configured => (bandStart <= bandEnd /\ bandSpacing > 0)

\* setChannel is about to divide by a spacing of 0
DivisionByZero ==
    /\ pc = "sc_set1"
    /\ Configured
    /\ bandSpacing = 0
    /\ space \notin Spaces

(***************************************************************************)
(* Properties of seek, seekUp and seekDown.                                *)
(***************************************************************************)
\* the SFBL bits the seeks of the current call took from their completion
\* reads, in order
SfblLog == SelectSeq(opLog, LAMBDA e : e[1] = "sfbl")

\* seekUp or seekDown has returned
SeekReturned == op \in {"seekUp", "seekDown"} /\ pc = "idle"

\* C15: seek returns 0 if and only if SFBL was set in the read taken at
\* completion, and bandStart + spacing * READCHAN otherwise; seekUp and
\* seekDown return 0 only when both attempts reported SFBL; with bandStart
\* >= 7600 a successful seek never returns 0.
SeekResult ==
    /\ (pc = "sk_set2" /\ ReadOk(tx)) =>
          Get(shadow, F_SFBL) = ChipField(chip, F_SFBL)
    /\ lastRet = "seek" =>
          /\ Len(SfblLog) > 0
          /\ result = 0 <=> SfblLog[Len(SfblLog)][2] = 1
          /\ SfblLog[Len(SfblLog)][2] = 0 =>
                /\ result = bandStart + bandSpacing * Get(shadow, F_READCHAN)
                /\ bandStart >= 7600 => result >= 7600
    /\ (SeekReturned /\ result = 0) => SfblLog = <<LogSfbl(Set(shadow, F_SFBL, 1)),
                                                   LogSfbl(Set(shadow, F_SFBL, 1))>>
    /\ (SeekReturned /\ Len(SfblLog) = 1) => SfblLog[1][2] = 0 /\ result # 0

\* seekUp has returned 0 after two seeks that both reported SFBL
SeekFailedTwice ==
    /\ SeekReturned
    /\ op = "seekUp"
    /\ result = 0
    /\ Len(SfblLog) = 2
    /\ SfblLog[1][2] = 1 /\ SfblLog[2][2] = 1

\* the writes of the current call, in order, and those among them that have
\* the seek-start bit set
Writes == SelectSeq(opLog, LAMBDA e : e[1] = "write")
SeekStarts == SelectSeq(Writes, LAMBDA e : e[2] = 1)

\* the channel of the band edge opposite to the direction of the seek
OppositeEdge == IF op = "seekUp" THEN 0 ELSE TopChan

\* the direction bit of the operation
OpDir == IF op = "seekUp" THEN SEEK_UP ELSE SEEK_DOWN

\* C16: seekUp and seekDown set the seek-start bit exactly once when the
\* first seek succeeds and exactly twice when it fails, never more; in the
\* failure case a tune to the opposite band edge (bandStart for seekUp,
\* bandEnd for seekDown) is started and completed between the two seeks, the
\* second seek has the direction of the first, and its result, 0 included, is
\* what the operation returns.
SeekRetriesOnce ==
    /\ op \in {"seekUp", "seekDown"} =>
          /\ Len(SeekStarts) <= 2
          /\ \A i \in 1..Len(Writes) : Writes[i][3] = OpDir
    /\ (SeekReturned /\ SfblLog[1][2] = 0) =>
          /\ Len(SeekStarts) = 1
          /\ Len(Writes) = 2
          /\ lastRet = "seekUp" \/ lastRet = "seekDown"
    /\ (SeekReturned /\ SfblLog[1][2] = 1) =>
          /\ Len(SeekStarts) = 2
          /\ Len(Writes) = 6
          /\ <<Writes[1][2], Writes[2][2], Writes[3][2],
               Writes[4][2], Writes[5][2], Writes[6][2]>> = <<1, 0, 0, 0, 1, 0>>
          /\ <<Writes[1][4], Writes[2][4], Writes[3][4],
               Writes[4][4], Writes[5][4], Writes[6][4]>> = <<0, 0, 1, 0, 0, 0>>
          /\ Writes[3][5] = OppositeEdge
          /\ scArg = (IF op = "seekUp" THEN bandStart ELSE bandEnd)
          /\ Len(SfblLog) = 2
          /\ lastRet = "seek"
          /\ result = (IF SfblLog[2][2] = 1 THEN 0 ELSE ChannelFreq(shadow))

\* seekDown has found a station on its second seek, after the tune to the
\* top of the band
SeekDownRetried ==
    /\ SeekReturned
    /\ op = "seekDown"
    /\ Len(SeekStarts) = 2
    /\ Writes[3][5] = TopChan
    /\ result # 0

(***************************************************************************)
(* Properties of powerUp and powerDown (SpecCtl).                          *)
(***************************************************************************)
\* the entries of the log without the register contents: the kind of each
\* and the length of each delay
Shape(log) ==
    [i \in 1..Len(log) |-> <<log[i][1], IF log[i][1] = "delay" THEN log[i][2] ELSE 0>>]

\* what powerUp does, in order
PowerUpShape ==
    <<<<"read", 0>>, <<"write", 0>>, <<"delay", 500>>,
      <<"read", 0>>, <<"write", 0>>, <<"delay", 110>>>>

\* the last step was the last putShadow of a powerUp that start() or the
\* public has called
PowerUpDone ==
    /\ op \in {"start", "powerUp"}
    /\ pc \in {"st_read", "idle"}
    /\ IsWriteTx(tx)
    /\ Len(opLog) = 6

\* the field f in the data of a write transaction, all of whose bytes were
\* acknowledged
FieldOnBus(log, f) == Field(WordOnBus(log, f[1] - SLOT_POWERCFG), f[2], f[3])

\* powerUp as C17 has it, with the value dmute of the mute-disable bit in
\* the second write
PowerUpSequence(dmute) ==
    /\ pc = "pu_read1" => opLog = <<>>
    /\ pc \in {"pu_set1", "pu_write1"} => Shape(opLog) = SubSeq(PowerUpShape, 1, 1)
    /\ pc = "pu_write1" => Get(shadow, F_XOSCEN) = 1
    /\ pc = "pu_read2" =>
          /\ Shape(opLog) = SubSeq(PowerUpShape, 1, 3)
          /\ ~HasNack(tx) => FieldOnBus(tx, F_XOSCEN) = 1
    /\ pc \in {"pu_set2", "pu_write2"} => Shape(opLog) = SubSeq(PowerUpShape, 1, 4)
    /\ pc = "pu_write2" =>
          /\ Get(shadow, F_ENABLE) = 1
          /\ Get(shadow, F_DISABLE) = 0
          /\ Get(shadow, F_DMUTE) = dmute
    /\ PowerUpDone =>
          /\ Shape(opLog) = PowerUpShape
          /\ ~HasNack(tx) =>
                /\ FieldOnBus(tx, F_ENABLE) = 1
                /\ FieldOnBus(tx, F_DISABLE) = 0
                /\ FieldOnBus(tx, F_DMUTE) = dmute
    /\ (op = "powerUp" /\ pc = "idle") => Shape(opLog) = PowerUpShape

\* C17, as stated: powerUp() is a read, a write with XOSCEN set, the settle
\* delay, a second read, a write with ENABLE set, DISABLE cleared and DMUTE
\* cleared, and the shorter delay; two writes exactly, the enable write after
\* the oscillator write and its delay.
PowerUpClearsDmute == PowerUpSequence(0)

\* C17, amended: the same sequence, with DMUTE set (audio un-muted) in the
\* second write.
PowerUpSetsDmute == PowerUpSequence(1)

\* the public has called powerUp() and its second write, with ENABLE and
\* DMUTE set, has reached the chip
PoweredUp ==
    /\ PowerUpDone
    /\ op = "powerUp"
    /\ ~HasNack(tx)
    /\ FieldOnBus(tx, F_DMUTE) = 1
    /\ ChipField(chip, F_ENABLE) = 1

\* the shadow with every field of fs set to 0
RECURSIVE ClearAll(_, _)
ClearAll(sh, fs) ==
    IF fs = <<>> THEN sh ELSE ClearAll(Set(sh, Head(fs), 0), Tail(fs))

\* registers 0x02..0x07 as the slots of a shadow: in the data of a complete
\* write transaction, and in the device
BusAsShadow(log) ==
    [i \in Slots |-> IF i \in SLOT_POWERCFG..SLOT_TEST1
                     THEN WordOnBus(log, i - SLOT_POWERCFG) ELSE 0]
ChipAsShadow(c) ==
    [i \in Slots |-> IF i \in SLOT_POWERCFG..SLOT_TEST1
                     THEN c[ReadOrderReg(i)] ELSE 0]

\* the six registers written in log differ from their values in the device c
\* in no bit outside the fields fs
OnlyFieldsWritten(log, c, fs) ==
    ClearAll(BusAsShadow(log), fs) = ClearAll(ChipAsShadow(c), fs)

\* the fields powerDown assigns
PowerDownTargets ==
    <<F_AHIZEN, F_GPIO1, F_GPIO2, F_GPIO3, F_DMUTE, F_ENABLE, F_DISABLE>>

\* C18: powerDown() is one read followed by exactly one write; when no
\* transfer fails, that write has AHIZEN = 1, GPIO1 = GPIO2 = GPIO3 = 0,
\* DMUTE = 0, ENABLE = 1 and DISABLE = 1, and every other bit of registers
\* 0x02..0x07 as it was read.
PowerDownWrite ==
    [][ /\ pc = "pd_write" =>
              /\ Shape(opLog) = <<<<"read", 0>>>>
              /\ Shape(opLog') = <<<<"read", 0>>, <<"write", 0>>, <<"delay", 2>>>>
              /\ pc' = "idle"
        /\ (pc = "pd_write" /\ ~opNack') =>
              /\ FieldOnBus(tx', F_AHIZEN) = 1
              /\ FieldOnBus(tx', F_GPIO1) = 0
              /\ FieldOnBus(tx', F_GPIO2) = 0
              /\ FieldOnBus(tx', F_GPIO3) = 0
              /\ FieldOnBus(tx', F_DMUTE) = 0
              /\ FieldOnBus(tx', F_ENABLE) = 1
              /\ FieldOnBus(tx', F_DISABLE) = 1
              /\ OnlyFieldsWritten(tx', chip, PowerDownTargets) ]_vars

\* powerDown() has returned after a setVolExt(true): the pins are at high
\* impedance, the device is disabled and VOLEXT is still set
PoweredDown ==
    /\ op = "powerDown"
    /\ pc = "idle"
    /\ ~opNack
    /\ IsWriteTx(tx)
    /\ GPIO = 0 /\ val = 0
    /\ nops = 2
    /\ ChipField(chip, F_GPIO1) = 0
    /\ ChipField(chip, F_GPIO2) = 0
    /\ ChipField(chip, F_GPIO3) = 0
    /\ ChipField(chip, F_DISABLE) = 1
    /\ ChipField(chip, F_AHIZEN) = 1
    /\ ChipField(chip, F_VOLUME) = 0
    /\ ChipField(chip, F_VOLEXT) = 1

(***************************************************************************)
(* Properties of the single-field setters (SpecCtl).                       *)
(***************************************************************************)
\* C20: setVolume, setMute and setMono are read-modify-writes of one field:
\* when no transfer of the call fails, the six registers written differ from
\* the six just read, which are the device's, only in the bits of VOLUME,
\* DMUTE or MONO respectively, and that field carries the value set.
SingleFieldWrite ==
    [][ /\ (pc = "sv_write" /\ ~opNack') =>
              /\ OnlyFieldsWritten(tx', chip, <<F_VOLUME>>)
              /\ FieldOnBus(tx', F_VOLUME) = volume
        /\ (pc = "sf_write" /\ op = "setMute" /\ ~opNack') =>
              /\ OnlyFieldsWritten(tx', chip, <<F_DMUTE>>)
              /\ FieldOnBus(tx', F_DMUTE) = (IF en THEN 1 ELSE 0)
        /\ (pc = "sf_write" /\ op = "setMono" /\ ~opNack') =>
              /\ OnlyFieldsWritten(tx', chip, <<F_MONO>>)
              /\ FieldOnBus(tx', F_MONO) = (IF en THEN 1 ELSE 0) ]_vars

\* setMono(true) has returned on a device that start() has enabled and
\* un-muted: MONO is set and the other bits of POWERCFG are as they were
MonoSet ==
    /\ op = "setMono"
    /\ pc = "idle"
    /\ en
    /\ ~opNack
    /\ IsWriteTx(tx)
    /\ ChipField(chip, F_MONO) = 1
    /\ ChipField(chip, F_ENABLE) = 1
    /\ ChipField(chip, F_DMUTE) = 1

(***************************************************************************)
(* Properties of the operations' bus traffic (SpecApi).                    *)
(***************************************************************************)
\* the operations that return a field of the shadow
ReadOnly == Accessors \cup {"getVolume", "getChannel"}

\* the reads and writes of a log, the polls of getSTC() aside
BusLog(log) == SelectSeq(log, LAMBDA e : e[1] \in {"read", "write"})

\* every write of the log comes right after a read
ReadBeforeEachWrite(log) ==
    LET b == BusLog(log)
    IN  \A i \in 1..Len(b) : b[i][1] = "write" => (i > 1 /\ b[i - 1][1] = "read")

\* C19: every operation performs a read transaction before each of its
\* write transactions (setVolume, setMute, setMono, setVolExt, writeGPIO,
\* setChannel, seek, powerUp, powerDown and start among them); every accessor
\* (getRSSI, getST, getMute, getMono, getVolume, getVolExt, getChannel,
\* getPN, getMFGID, getREV, getDEV, getFIRMWARE) performs exactly one read
\* and no write and leaves the device's registers as they are.
ReadThenWrite ==
    [][ /\ ReadBeforeEachWrite(opLog')
        /\ IsWriteTx(tx') =>
              /\ Len(opLog) > 0
              /\ opLog[Len(opLog)][1] \in {"read", "sfbl"}
        /\ op' \in ReadOnly =>
              /\ Len(opLog') <= 1
              /\ tx' # <<>> => (IsReadTx(tx') /\ chip' = chip /\ opLog' = <<LogRead>>)
              /\ (pc' = "idle" /\ op = op') => opLog' = <<LogRead>> ]_vars

\* getFIRMWARE() has returned the firmware field of CHIPID after one read
AccessorReturned ==
    /\ op = "getFIRMWARE"
    /\ pc = "idle"
    /\ lastRet = "getFIRMWARE"
    /\ opLog = <<LogRead>>
    /\ result = 19
    /\ ChipField(chip, F_ENABLE) = 1

(***************************************************************************)
(* Round trips through the device (SpecApi: every transfer acknowledged,   *)
(* the device returns registers 0x02..0x07 as last written).               *)
(***************************************************************************)
\* the accessor op has returned, and it was called right after a setter
ReadBack(setter, getter) ==
    /\ pc = "idle"
    /\ op = getter
    /\ lastRet = getter
    /\ prev[1] = setter

\* C21: writing a control field and reading it back yields the value
\* written: setMono(b) then getMono() = b, setMute(b) then getMute() = b,
\* setVolExt(b) then getVolExt() = b, and setVolume(v) then getVolume() = v
\* for v in 0..15 (and the clamped value for any other v).
RoundTrip ==
    /\ ReadBack("setMono", "getMono") => result = (IF prev[2] THEN 1 ELSE 0)
    /\ ReadBack("setMute", "getMute") => result = (IF prev[2] THEN 1 ELSE 0)
    /\ ReadBack("setVolExt", "getVolExt") => result = (IF prev[2] THEN 1 ELSE 0)
    /\ ReadBack("setVolume", "getVolume") => (prev[3] \in 0..15 /\ result = prev[3])

\* getMono() has returned true after setMono(true)
MonoReadBack ==
    /\ ReadBack("setMono", "getMono")
    /\ prev[2]
    /\ result = 1

\* C22: the seek parameters written by start() (SKMODE, SEEKTH, SKCNT,
\* SKSNR) are never changed afterwards: every write transaction of a later
\* public operation carries the values start() wrote, and the device keeps
\* them.
SeekParamsKept ==
    /\ (IsWriteTx(tx) /\ op \notin {"none", "start"}) =>
          /\ FieldOnBus(tx, F_SKMODE) = SKMODE_STOP
          /\ FieldOnBus(tx, F_SEEKTH) = SEEKTH_DEF
          /\ FieldOnBus(tx, F_SKCNT) = SKCNT_DEF
          /\ FieldOnBus(tx, F_SKSNR) = SKSNR_DEF
    /\ (pc = "idle" /\ op # "none") =>
          /\ ChipField(chip, F_SKMODE) = SKMODE_STOP
          /\ ChipField(chip, F_SEEKTH) = SEEKTH_DEF
          /\ ChipField(chip, F_SKCNT) = SKCNT_DEF
          /\ ChipField(chip, F_SKSNR) = SKSNR_DEF

\* the write that starts the seek of a seekDown() made after another
\* operation carries the seek parameters of start()
SeekStartedLater ==
    /\ IsWriteTx(tx)
    /\ op = "seekDown"
    /\ nops = 2
    /\ FieldOnBus(tx, F_SEEK) = 1
    /\ FieldOnBus(tx, F_SKMODE) = SKMODE_STOP
    /\ FieldOnBus(tx, F_SEEKTH) = SEEKTH_DEF

(***************************************************************************)
(* The result code of putShadow (SpecWrites).                              *)
(***************************************************************************)
\* where the program is after the putShadow() made at p, whatever it returned
AfterWrite(p, st, sh) ==
    CASE p = "pu_write1" -> "pu_read2"
      [] p = "pu_write2" -> Head(st)
      [] p = "st_write" -> "idle"
      [] p = "sc_write1" -> (IF Get(sh, F_STCIEN) = 0 THEN "sc_poll1" ELSE "sc_read2")
      [] p = "sc_write2" -> "sc_poll2"
      [] p = "sv_write" -> "sv_getvol"

\* C23: no operation reacts to the result code of the write step: after a
\* putShadow() the program is at the same position with the same shadow,
\* locals and return stack whether the write succeeded or failed with code
\* 1, 2 or 3, and what setChannel and setVolume return to their caller is the
\* field they read back, never a sign of the failure.
WriteResultIgnored ==
    [][ /\ IsWriteTx(tx') =>
              /\ putRes' \in 0..3
              /\ pc' = AfterWrite(pc, stack, shadow)
              /\ stack' = (IF pc = "pu_write2" THEN Tail(stack) ELSE stack)
              /\ UNCHANGED <<shadow, freq, volume, result, cfgVars>>
        /\ lastRet' = "setChannel" => result' = ChannelFreq(shadow')
        /\ lastRet' = "setVolume" => result' = Get(shadow', F_VOLUME) ]_vars

\* the write that starts a tune has failed and setChannel waits for STC all
\* the same
FailedWriteThenPoll ==
    /\ pc = "sc_poll1"
    /\ IsWriteTx(tx)
    /\ putRes \in 1..3

(***************************************************************************)
(* setMute against its declaration (SpecCtl).                              *)
(***************************************************************************)
\* C24: setMute(true) mutes: the register it writes has the audio muted
\* (mute-disable bit DMUTE = 0), and setMute(false) un-mutes (DMUTE = 1).
MuteMutes ==
    [][ (pc = "sf_write" /\ op = "setMute" /\ ~opNack') =>
            FieldOnBus(tx', F_DMUTE) = (IF en THEN 0 ELSE 1) ]_vars

\* setMute(true) has returned and the device has its mute disabled: the
\* audio is on
MuteTrueUnmuted ==
    /\ op = "setMute"
    /\ pc = "idle"
    /\ en
    /\ ~opNack
    /\ IsWriteTx(tx)
    /\ FieldOnBus(tx, F_DMUTE) = 1
    /\ ChipField(chip, F_DMUTE) = 1


(***************************************************************************)
(* Button events                                                           *)
(***************************************************************************)

\* the last call of checkEvent found the button released / left it pressed
Released == btnObs.called /\ btnObs.stableWas = 0 /\ button.stableState = 1
Held == btnObs.called /\ button.stableState = 0

\* how long the debounced press has lasted
PressLasted == now - btnObs.pressAt

\* SHORT is reported on the release of a press shorter than 2500 ms, and then only
ShortOnRelease ==
    btnObs.called =>
        (btnObs.ev = "BTN_EVENT_SHORT" <=> (Released /\ PressLasted < 2500))

\* LONG is reported while the button is held, once the press has lasted more
\* than 3000 ms, and then only
LongWhileHeld ==
    btnObs.called =>
        /\ btnObs.ev = "BTN_EVENT_LONG" => (Held /\ PressLasted > 3000)
        /\ (Held /\ PressLasted > 3000) => btnObs.cycleLongs >= 1

\* a press released after 2500 to 3000 ms reports nothing
NothingBetween ==
    (Released /\ PressLasted >= 2500 /\ PressLasted <= 3000)
        => btnObs.ev = "BTN_EVENT_NONE"

\* the debounced state changes only to a level that every read of the pin has
\* returned for more than 50 ms
StableBeforeChange ==
    (btnObs.called /\ btnObs.stableWas # button.stableState)
        => (now - btnObs.sampleSince) > 50

\* C25: checkEvent reports SHORT on the release of a debounced press shorter
\* than 2500 ms, LONG while the button is held once the press has lasted more
\* than 3000 ms, nothing for a press released after 2500 to 3000 ms, and a raw
\* level that has not been stable for more than 50 ms changes neither the
\* debounced state nor produces an event
ButtonReports == ShortOnRelease /\ LongWhileHeld /\ NothingBetween /\ StableBeforeChange

\* the same for a button that was not held when begin() ran
ButtonReportsIfReleasedAtBegin == ~btnObs.heldAtBegin => ButtonReports

\* begin() read the pin low, and the first read of the released pin changed
\* the debounced state at once and reported SHORT
ReleaseAcceptedAtOnce ==
    /\ btnObs.heldAtBegin
    /\ Released
    /\ now - btnObs.sampleSince = 0
    /\ btnObs.ev = "BTN_EVENT_SHORT"

\* C26: in one cycle of debounced press and release at most one event other
\* than NONE is reported, LONG at most once, hence never LONG and SHORT both
OneEventPerPress == btnObs.cycleEvents <= 1 /\ btnObs.cycleLongs <= 1

\* LONG has been reported for a press, and the button has been released since
LongThenReleased ==
    btnObs.cycleLongs = 1 /\ Released /\ ~btnObs.heldAtBegin


(***************************************************************************)
(* Encoder events                                                          *)
(***************************************************************************)

\* the last call returned a rotation event
Rotated == encObs.called /\ encObs.ev \in {"EVENT_CW", "EVENT_CCW"}

\* no rotation event within 150 ms after a click
ClickBlocksRotation == Rotated => ~(encObs.clicked /\ now - encObs.clickAt < 150)

\* two clicks are more than 250 ms apart
ClicksApart == encObs.clickGap # -1 => encObs.clickGap > 250

\* C27: after checkEvent has returned EVENT_BUTTON no call within 150 ms
\* returns EVENT_CW or EVENT_CCW, and EVENT_BUTTON is returned at most once
\* in any window of 250 ms
ClickDeadTime == ClickBlocksRotation /\ ClicksApart

\* a rotation event 100 ms after a click
RotationAfterClick == Rotated /\ encObs.clicked /\ now - encObs.clickAt = 100

\* the raw sample that follows r in the sequence 0, 1, 3, 2, 0
Forward(r) == <<1, 3, 0, 2>>[r + 1]

\* C28: a step of the raw sample along 0, 1, 3, 2, 0 yields EVENT_CCW on each
\* of the four steps, a step along the reverse sequence EVENT_CW, an unchanged
\* sample or a change of both bits EVENT_NONE
RotationDecode ==
    (encObs.called /\ encObs.ev # "EVENT_BUTTON" /\ encObs.rawWas # -1) =>
        encObs.ev = IF encObs.rawNow = Forward(encObs.rawWas) THEN "EVENT_CCW"
                    ELSE IF encObs.rawWas = Forward(encObs.rawNow) THEN "EVENT_CW"
                    ELSE "EVENT_NONE"

\* the step from raw sample 3 to raw sample 2 reported as EVENT_CCW
ForwardStepDecoded ==
    /\ encObs.called
    /\ encObs.rawWas = 3
    /\ encObs.rawNow = 2
    /\ encObs.ev = "EVENT_CCW"


(***************************************************************************)
(* UART transmit ring                                                      *)
(***************************************************************************)

\* the first n elements of a sequence
Prefix(q, n) == [i \in 1..n |-> q[i]]

\* the bytes handed to the transmitter are the first of those passed to
\* uart_putc, in their order, each once
SentInOrder ==
    /\ Len(uartObs.sent) <= Len(uartObs.given)
    /\ uartObs.sent = Prefix(uartObs.given, Len(uartObs.sent))

\* the bytes passed and not yet handed over are those in the ring behind the
\* tail, and the byte of a call that has not stored it yet: none is lost
NoneOverwritten ==
    LET pending == Len(uartObs.given) - Len(uartObs.sent)
        inCall == IF putc.pc \in {"wait", "store"} THEN 1 ELSE 0
        headSeen == IF putc.pc = "head" THEN putc.tmphead ELSE uart.TxHead
    IN  /\ pending - inCall = (headSeen - uart.TxTail) % UART_TX_BUFFER_SIZE
        /\ \A k \in 1..(pending - inCall) :
               uart.TxBuf[(uart.TxTail + k) % UART_TX_BUFFER_SIZE]
                   = uartObs.given[Len(uartObs.sent) + k]

\* the interrupt is off only when nothing is left to send
OffOnlyWhenEmpty ==
    /\ ~uartObs.strandedOff
    /\ (putc.pc = "idle" /\ uart.TxHead # uart.TxTail) => uart.UDRIE

\* C29: the bytes handed to the transmitter are exactly those passed to
\* uart_putc, in order and each once; uart_putc waits while the ring is full
\* and overwrites no byte that is still to be sent; the interrupt disables
\* itself only when head equals tail
TransmitRing == SentInOrder /\ NoneOverwritten /\ OffOnlyWhenEmpty

\* uart_putc has waited for a full ring, the ring has wrapped, and every byte
\* passed has been handed over
RingFilledAndDrained ==
    /\ uartObs.waited
    /\ Len(uartObs.given) = MaxPuts
    /\ uartObs.sent = uartObs.given
    /\ putc.pc = "idle"


(***************************************************************************)
(* timer_millis                                                            *)
(***************************************************************************)

\* C30: the value timer_millis returns is one millis_counter held at some
\* instant of the call, whatever the overflow interrupt does meanwhile, and
\* the I bit is on return what it was on entry
AtomicRead ==
    tm.pc = "return" => (tm.m \in tmObs.held /\ timer.I = tmObs.entryI)

\* the call read 255, and the overflow interrupt that carries into the second
\* byte was served after the read and before the return
OverflowDuringCall ==
    /\ tm.pc = "return"
    /\ tmObs.entryI
    /\ tm.m = <<255, 0, 0, 0>>
    /\ timer.millis_counter = <<0, 1, 0, 0>>
    /\ Cardinality(tmObs.held) = 2

(***************************************************************************)
(* The UI layer: power flag and encoder mode.                              *)
(***************************************************************************)

\* main's loop is between two events and no call of the tuner is in progress
BetweenEvents == ui.pc = "loop" /\ pc = "idle"

\* the handler has returned from event e
Handled(e) == BetweenEvents /\ uiObs.done /\ uiObs.ev = e

\* what an event may change, as it was when the handler was entered
UiState == <<shadow, chip, ui.s_favorite_freq>>

PowerFlagTracks ==
    BetweenEvents =>
        /\ ui.s_radio_on <=> uiObs.lastPower = "powerUp"
        /\ ~ui.s_radio_on <=> uiObs.lastPower = "powerDown"

PowerAlternates ==
    Handled("UI_BTN_DOWN_LONG") =>
        /\ ui.s_radio_on = ~uiObs.onWas
        /\ uiObs.lastPower = IF uiObs.onWas THEN "powerDown" ELSE "powerUp"

MuteIgnoredWhenOff ==
    (Handled("UI_BTN_DOWN_SHORT") /\ ~uiObs.onWas) =>
        /\ uiObs.calls = 0
        /\ UiState = uiObs.before
        /\ ui.s_radio_on = uiObs.onWas
        /\ ui.s_mode = uiObs.modeWas

\* C31: whenever main's loop is between two events, the UI power flag is
\* true exactly when the last power command sent to the tuner was powerUp and
\* false exactly when it was powerDown; UI_BTN_DOWN_LONG sends the other
\* command and flips the flag; a UI_BTN_DOWN_SHORT handled while the flag is
\* false calls nothing of the tuner and leaves the shadow, the chip and the
\* UI's variables as they were.
PowerFlag == PowerFlagTracks /\ PowerAlternates /\ MuteIgnoredWhenOff

\* the radio was switched off by a long press, and a short press on the
\* same button has then been handled
MutePressedWhileOff ==
    /\ Handled("UI_BTN_DOWN_SHORT")
    /\ ~uiObs.onWas
    /\ uiObs.lastPower = "powerDown"
    /\ uiObs.events >= 2

\* the handler is in, or has returned from, a rotation event that arrived in
\* mode m
Rotating(m) ==
    /\ ui.pc \in {"break", "loop"}
    /\ uiObs.ev \in {"UI_ENC_STEP_CW", "UI_ENC_STEP_CCW"}
    /\ uiObs.modeWas = m

ModeIsVolumeOrTune ==
    /\ ui.s_mode \in {RADIO_MODE_VOLUME, RADIO_MODE_TUNE}
    /\ uiObs.events = 0 => ui.s_mode = RADIO_MODE_VOLUME

ModeChangedByClick ==
    /\ uiObs.ev # "UI_ENC_CLICK" => ui.s_mode = uiObs.modeWas
    /\ (uiObs.ev = "UI_ENC_CLICK" /\ ui.pc \in {"break", "loop"}) =>
            ui.s_mode # uiObs.modeWas

RotationChangesVolume ==
    Rotating(RADIO_MODE_VOLUME) =>
        /\ op = (IF uiObs.ev = "UI_ENC_STEP_CW" THEN "incVolume" ELSE "decVolume")
        /\ pc \notin Poll1 \cup Poll2
        /\ ChipField(chip, F_TUNE) = 0 /\ ChipField(chip, F_SEEK) = 0
        /\ ChipField(chip, F_CHAN) = ChipField(uiObs.before[2], F_CHAN)
        /\ IsWriteTx(tx) => Field(tx[5][2], 7, 1) = 0

RotationTunes ==
    Rotating(RADIO_MODE_TUNE) =>
        /\ op = (IF uiObs.ev = "UI_ENC_STEP_CW" THEN "incChannel" ELSE "decChannel")
        /\ ChipField(chip, F_VOLUME) = ChipField(uiObs.before[2], F_VOLUME)
        /\ Get(shadow, F_VOLUME) = Get(uiObs.before[1], F_VOLUME)

\* C32: the encoder mode is always RADIO_MODE_VOLUME or RADIO_MODE_TUNE and
\* is VOLUME until the first event; only UI_ENC_CLICK changes it, and a click
\* always makes it the other mode; a rotation step that arrives in VOLUME
\* mode calls incVolume (CW) or decVolume (CCW), never enters a poll, never
\* writes TUNE or SEEK and leaves the chip's channel field alone; a rotation
\* step that arrives in TUNE mode calls incChannel (CW) or decChannel (CCW)
\* and leaves the volume field of the shadow and of the chip as it was.
EncoderMode ==
    /\ ModeIsVolumeOrTune
    /\ ModeChangedByClick
    /\ RotationChangesVolume
    /\ RotationTunes

\* two clicks and then a rotation step: the mode is VOLUME again and the
\* step has changed the volume
TwoClicksThenVolume ==
    /\ Handled("UI_ENC_STEP_CW")
    /\ uiObs.events = 3
    /\ uiObs.modeWas = RADIO_MODE_VOLUME
    /\ ChipField(chip, F_VOLUME) # ChipField(uiObs.before[2], F_VOLUME)
(***************************************************************************)
(* Termination of tune and seek.                                           *)
(***************************************************************************)
TuneOps == {"setChannel", "incChannel", "decChannel", "seekUp", "seekDown"}

\* a tune or seek operation has been called and has not returned
InTuneCall == op \in TuneOps /\ pc # "idle"

\* the operation has returned with the engine in Idle: the chip holds no
\* command bit and no completion flag
ReturnedIdle ==
    /\ pc = "idle"
    /\ hs = "Idle"
    /\ ChipField(chip, F_TUNE) = 0 /\ ChipField(chip, F_SEEK) = 0
    /\ Get(shadow, F_TUNE) = 0 /\ Get(shadow, F_SEEK) = 0

\* C33: when every transfer is acknowledged and the chip sets STC after a
\* command bit is written and clears it after the command bit is cleared,
\* every call of setChannel, incChannel, decChannel, seekUp and seekDown (and
\* of the seek and setChannel inside them) returns, and whenever one has
\* returned the command bits TUNE and SEEK are 0 in the shadow and in the
\* chip and the handshake is in Idle.
TuneTerminates ==
    /\ InTuneCall ~> ReturnedIdle
    /\ []((op \in TuneOps /\ pc = "idle") => ReturnedIdle)

\* seekDown has returned after a seek that failed, the tune to the band end
\* and the second seek
SeekDownReturnedIdle ==
    /\ op = "seekDown"
    /\ lastRet = "seek"
    /\ scArg = bandEnd
    /\ Len(SfblLog) = 2
    /\ ReturnedIdle
(***************************************************************************)
(* The fail flag of seek is captured once.                                 *)
(***************************************************************************)
\* the program points of seek after the flag was captured
AfterCapture == {"sk_write2", "sk_poll2", "sk_fail", "sk_getch"}

\* the flag is captured from the shadow straight after the read that follows
\* the first poll, and the next write is the one that clears SEEK
CaptureInOrder ==
    \A i \in 1..Len(opLog) :
        opLog[i][1] = "sfbl" =>
            /\ i > 1 /\ opLog[i - 1] = LogRead
            /\ i < Len(opLog) => (opLog[i + 1][1] = "write" /\ opLog[i + 1][2] = 0)

\* the captured flag is what seek holds, and what decides its return value
CaptureDecides ==
    /\ pc \in AfterCapture =>
          /\ Len(SfblLog) > 0
          /\ sfbl <=> SfblLog[Len(SfblLog)][2] = 1
    /\ pc = "sk_fail" => sfbl
    /\ pc = "sk_getch" => ~sfbl
    /\ lastRet = "seek" => (result = 0 <=> sfbl)

\* C34: the SFBL value that decides what seek returns is taken from the
\* shadow right after the read that follows the poll for STC set and before
\* the write that clears SEEK; from then until seek returns, no read (of the
\* poll for STC clear, or of getChannel) changes the captured flag, and the
\* return value is 0 exactly when the captured flag is set, whatever the
\* shadow's SFBL has become.
SfblCapturedOnce ==
    /\ [](CaptureInOrder /\ CaptureDecides)
    /\ [][(pc \in AfterCapture) => (sfbl' = sfbl /\ SfblLog' = SfblLog)]_vars

\* a seek has returned 0 on the captured flag although the chip has cleared
\* SFBL and the shadow's copy, read again in the second poll, is 0
FailAfterFlagCleared ==
    /\ lastRet = "seek"
    /\ result = 0
    /\ sfbl
    /\ Get(shadow, F_SFBL) = 0
    /\ ChipField(chip, F_SFBL) = 0
(***************************************************************************)
(* Polling is the only completion mode.                                    *)
(***************************************************************************)
\* the program points of the command writes and of the reads that follow
\* the wait for completion
CommandWrites == {"sc_write1", "sk_write1"}
AfterWait == {"sc_read2", "sk_read2"}

\* C35: in every call made after start() the STC interrupt enable bit is 0
\* in the shadow and in the chip, so that the command write of setChannel
\* and of seek is always followed by the poll for STC set, and the read and
\* write that clear the command bit are reached only from that poll, by a
\* read that showed STC set.
PollingOnly ==
    /\ [](nops > 0 =>
            /\ Get(shadow, F_STCIEN) = 0
            /\ ChipField(chip, F_STCIEN) = 0)
    /\ [][(pc \in CommandWrites /\ pc' # pc) => pc' \in Poll1]_vars
    /\ [][(pc' \in AfterWait /\ pc' # pc) =>
            /\ pc \in Poll1
            /\ Get(shadow', F_STC) = 1
            /\ hs' = "ResultReady"]_vars

\* the second call after start() is a seek that has left its poll for STC
\* set and is about to clear SEEK
SeekWaited ==
    /\ nops = 2
    /\ pc = "sk_set2"
    /\ Get(shadow, F_STC) = 1
    /\ Get(shadow, F_STCIEN) = 0
(***************************************************************************)
(* Polls on stale data.                                                    *)
(***************************************************************************)
\* C36: a poll read whose address byte is not acknowledged leaves the
\* shadow, and with it the STC read before, as it was, and the poll goes by
\* that value: it stays where it is.  Once the device has stopped
\* acknowledging reads the program is in a poll and stays in that poll in
\* every later state, with the shadow's STC 0 in a poll for STC set and 1 in
\* a poll for STC clear, whatever the chip's own STC becomes; nothing is
\* returned.
StalePollNeverEnds ==
    /\ [][(pc \in Poll1 \cup Poll2 /\ ReadNacked(tx')) =>
            (shadow' = shadow /\ pc' = pc /\ stack' = stack)]_vars
    /\ [][Silent => (Silent' /\ pc' = pc /\ lastRet' = "none")]_vars
    /\ [](Silent =>
            /\ pc \in Poll1 => Get(shadow, F_STC) = 0
            /\ pc \in Poll2 => Get(shadow, F_STC) = 1
            /\ pc \in Poll1 \cup Poll2)

\* the device has stopped during seek's poll for STC clear; the chip has
\* cleared STC since, and the program has polled again and seen the stale 1
StaleSecondPoll ==
    /\ Silent
    /\ pc = "sk_poll2"
    /\ ReadNacked(tx)
    /\ Get(shadow, F_STC) = 1
    /\ ChipField(chip, F_STC) = 0
(***************************************************************************)
(* The channel number fits its field, for every region and spacing.        *)
(***************************************************************************)
\* the TUNE bit in the CHANNEL word of a complete write transaction
TuneOnBus(log) == Field(log[5][2], 7, 1)

\* C37: in each of the three regions with each of the three spacings, the
\* channel number (freq - bandStart) / spacing of every frequency of the band
\* (what clamping leaves of any request) lies in 0..1023; setChannel stores
\* it in CHAN whole, with TUNE = 1 beside it, and the write carries both to
\* the chip unchanged.
ChannelFits ==
    /\ (pc = "idle" /\ nops = 0) =>
          \A f \in bandStart..bandEnd :
              /\ ChanOf(f) \in 0..1023
              /\ LET sh == Set(Set(shadow, F_CHAN, ChanOf(f)), F_TUNE, 1)
                 IN  Get(sh, F_CHAN) = ChanOf(f) /\ Get(sh, F_TUNE) = 1
    /\ pc \in {"sc_read1", "sc_set1", "sc_write1"} =>
          /\ freq \in bandStart..bandEnd
          /\ ChanOf(freq) \in 0..1023
    /\ pc = "sc_write1" =>
          /\ Get(shadow, F_CHAN) = ChanOf(freq)
          /\ Get(shadow, F_TUNE) = 1
    /\ TuneWritten =>
          /\ ChanOnBus(tx) = ChanOf(freq)
          /\ TuneOnBus(tx) = 1
          /\ ChipField(chip, F_CHAN) = ChanOf(freq)

\* the widest band at the finest spacing: a request above the band has put
\* the top channel, 640, on the bus
TopChannelWritten ==
    /\ TuneWritten
    /\ bandStart = 7600 /\ bandEnd = 10800 /\ bandSpacing = 5
    /\ scArg > bandEnd
    /\ ChanOnBus(tx) = 640
    /\ TuneOnBus(tx) = 1
(***************************************************************************)
(* The state powerUp() leaves after powerDown().                           *)
(***************************************************************************)
\* powerUp(), called by main or by the UI after a powerDown(), has made its
\* last write and returned
PowerUpWritten ==
    /\ op = "powerUp"
    /\ uiObs.lastPower = "powerUp"
    /\ pc = "idle"
    /\ IsWriteTx(tx) /\ ~HasNack(tx)

\* C38: after powerDown() and then powerUp(), on a chip that keeps what was
\* written to it, the last write of powerUp leaves AHIZEN = 0, ENABLE = 1,
\* DISABLE = 0 and DMUTE = 1 (audio un-muted) in the chip and in the shadow.
AudibleAfterPowerCycle ==
    PowerUpWritten =>
        /\ ChipField(chip, F_AHIZEN) = 0 /\ Get(shadow, F_AHIZEN) = 0
        /\ ChipField(chip, F_ENABLE) = 1
        /\ ChipField(chip, F_DISABLE) = 0
        /\ ChipField(chip, F_DMUTE) = 1

\* main's powerUp() after its powerDown() has returned: the chip is enabled
\* and un-muted, and its audio outputs are still set to high impedance
HighZAfterPowerCycle ==
    /\ PowerUpWritten
    /\ ui.pc = "loop"
    /\ uiObs.events = 0
    /\ ChipField(chip, F_AHIZEN) = 1
    /\ ChipField(chip, F_ENABLE) = 1
    /\ ChipField(chip, F_DISABLE) = 0
    /\ ChipField(chip, F_DMUTE) = 1
(***************************************************************************)
(* Bus transactions are closed and belong to main's context.               *)
(***************************************************************************)
\* the events of a transaction between its start and its stop
Inside(log) == 2..(Len(log) - 1)

\* C39: every bus transaction begins with a start and ends with a stop, has
\* no other start or stop inside, and all its bytes lie between the two, for
\* every operation and every pattern of ACK and NACK; so starts and stops
\* alternate, and the bus is idle after every step of an operation and when
\* the operation returns.  A step of the timer or UART interrupt handler
\* leaves the bus, the shadow, the chip and the operation in progress as
\* they are.
BusClosed ==
    /\ [](tx # <<>> =>
            /\ Len(tx) >= 3
            /\ tx[1] = EvStart
            /\ tx[Len(tx)] = EvStop
            /\ \A k \in Inside(tx) : tx[k][1] \in {"read", "write"})
    /\ [](putRes \in 1..3 => (tx # <<>> /\ tx[Len(tx)] = EvStop))
    /\ [][(timer' # timer \/ (uart' # uart /\ putc' = putc)) => UNCHANGED radioVars]_vars

\* the timer's handler has run between the two transactions of an operation,
\* after a write that was cut short by a NACK and closed with a stop
HandlerBetweenTransactions ==
    /\ pc \notin {"init", "idle"}
    /\ tmObs.overflows > 0
    /\ putRes = 2
    /\ tx[Len(tx)] = EvStop
    /\ Len(uartObs.sent) > 0

=============================================================================
